---------------------------- MODULE Spec2Model ----------------------------
(* A model of the bplib bundle protocol core: the active-bundle table      *)
(* (common/cbuf.c), the version 6 send and receive paths (v6/v6.c), the    *)
(* bundle integrity block (v6/bib.c), and the system time, the allocator   *)
(* and the lock registry of the POSIX layer (os/posix.c).                  *)
EXTENDS Integers, Sequences, FiniteSets, TLC

(***************************************************************************)
(* Bounds of the model                                                     *)
(***************************************************************************)

\* capacities 1..MaxCap of the active-bundle table are explored
MaxCap == 2

\* bp_val_t is modelled CidBits wide (64 in the build): CIDs wrap at 2^CidBits
CidBits == 3

\* num_entries is an int: calls to cbuf_add stop once it reached MaxCount
MaxCount == MaxCap + 1

\* the slot-reuse scenario runs on tables of capacity 1..ReuseCap
ReuseCap == 5

\* payloads of 0..MaxPay bytes are sent
MaxPay == 3

\* a send hands at most MaxCalls fragments to storage before the model stops it
MaxCalls == 4

\* sends on a bundle stop once its creation sequence reached MaxSeq
MaxSeq == 2

\* the bp_val_t fields of the primary block (times, lifetimes) are modelled
\* TimeBits wide (64 in the build)
TimeBits == 4

\* a received bundle has at most MaxBlocks blocks between its primary block
\* and its payload block
MaxBlocks == 2

\* a chain of blocks that parse has at most MaxChain blocks before its
\* payload block
MaxChain == 7

\* v6_build is handed at most MaxHdrLen bytes of forwarded blocks
MaxHdrLen == 80

ValMod == 2 ^ CidBits

TimeMod == 2 ^ TimeBits

Cids == 0 .. (ValMod - 1)

(***************************************************************************)
(* Status codes and records                                                *)
(***************************************************************************)

BP_SUCCESS == "BP_SUCCESS"

BP_ERROR == "BP_ERROR"

BP_TIMEOUT == "BP_TIMEOUT"

BP_DUPLICATE == "BP_DUPLICATE"

\* the storage id of an empty slot: the zero that calloc leaves in the table
BP_SID_VACANT == 0

\* storage ids of stored bundles
Sids == {1}

\* bp_active_bundle_t
ActiveBundle(sid, retx, cid) == [sid |-> sid, retx |-> retx, cid |-> cid]

\* the records a caller passes to cbuf_add
Bundles == {ActiveBundle(s, 0, c) : s \in Sids, c \in Cids}

\* no record was written to the caller's bundle pointer
NoBundle == [sid |-> BP_SID_VACANT, retx |-> 0, cid |-> 0]

\* v6_receive_bundle was not called
NoRecv == [done |-> FALSE]

\* v6_build, the BIB functions, bplib_os_systime or the allocator were not
\* called
NoCall == [pc |-> "none"]

\* no expiration time was computed
NoExpr == [createsec |-> 0, lifetime |-> 0, sent |-> FALSE, received |-> FALSE]

VARIABLES
    cbuf,       \* cbuf_t: size, table, num_entries, newest_cid, oldest_cid
    cb_op,      \* the cbuf function called last
    cb_ret,     \* its return value
    cb_out,     \* the record it wrote to *bundle
    bundle,     \* bp_bundle_t: attributes, data, prebuilt and the blocks
    send,       \* the call of v6_send_bundle: position, locals, result
    store,      \* the fragments this call handed to the storage collaborator
    reuse,      \* the slot-reuse scenario: the call made last, and k
    rx,         \* the call of v6_receive_bundle: its input and what it left
    expr,       \* a creation time and lifetime, and the expiration times
                \* the send path and the receive path compute from them
    build,      \* a call of v6_build: what goes into the header, the result
    bib,        \* a bp_blk_bib_t, the block buffer it is written to and
                \* read from, and a payload
    sysclock,   \* the system clock, prevnow and what bplib_os_systime said
    mem,        \* the allocator: its counters, the blocks, the threads
    locks       \* the lock registry: locks[], lock_of_locks, the threads

cbuf_vars == <<cbuf, cb_op, cb_ret, cb_out>>

send_vars == <<bundle, send, store>>

recv_vars == <<rx, expr>>

lib_vars == <<build, bib, sysclock, mem, locks>>

vars ==
    <<cbuf, cb_op, cb_ret, cb_out, bundle, send, store, reuse, rx, expr,
      build, bib, sysclock, mem, locks>>

(***************************************************************************)
(* common/cbuf.c                                                           *)
(***************************************************************************)

\* cbuf_create(size), size >= 1: a zeroed table and zeroed attributes
cbuf_create(size) ==
    [size        |-> size,
     table       |-> [i \in 0 .. (size - 1) |-> NoBundle],
     num_entries |-> 0,
     newest_cid  |-> 0,
     oldest_cid  |-> 0]

\* the slot index taken one too far
cbuf_ati_off_by_one(c, cid) == (cid + 1) % c.size

\* bp_index_t ati = cid % cbuf->size
cbuf_ati(c, cid) == cid % c.size

\* the DUPLICATE test with the vacancy comparison inverted
cbuf_add_is_dup_inverted(c, active, overwrite) ==
    /\ ~overwrite
    /\ c.table[cbuf_ati(c, active.cid)].sid = BP_SID_VACANT
    /\ c.table[cbuf_ati(c, active.cid)].cid = active.cid

\* cbuf_add: the DUPLICATE test
cbuf_add_is_dup(c, active, overwrite) ==
    /\ ~overwrite
    /\ c.table[cbuf_ati(c, active.cid)].sid # BP_SID_VACANT
    /\ c.table[cbuf_ati(c, active.cid)].cid = active.cid

\* cbuf_add: the table after the call
cbuf_add(c, active, overwrite) ==
    IF cbuf_add_is_dup(c, active, overwrite)
    THEN [status |-> BP_DUPLICATE, cbuf |-> c]
    ELSE [status |-> BP_SUCCESS,
          cbuf   |-> [c EXCEPT !.table[cbuf_ati(c, active.cid)] = active,
                               !.num_entries = @ + 1,
                               !.newest_cid = IF ~overwrite
                                              THEN (active.cid + 1) % ValMod
                                              ELSE @]]

\* cbuf_next without the oldest_cid != newest_cid test of its loop
cbuf_next_unbounded(c) ==
    IF c.table[cbuf_ati(c, c.oldest_cid)].sid = BP_SID_VACANT
    THEN [status |-> BP_TIMEOUT,
          cbuf   |-> [c EXCEPT !.oldest_cid = (@ + 1) % ValMod],
          bundle |-> NoBundle]
    ELSE [status |-> BP_SUCCESS, cbuf |-> c,
          bundle |-> c.table[cbuf_ati(c, c.oldest_cid)]]

\* cbuf_next taking the record it returns out of the table
RECURSIVE cbuf_next_pops(_)
cbuf_next_pops(c) ==
    IF c.oldest_cid # c.newest_cid
    THEN IF c.table[cbuf_ati(c, c.oldest_cid)].sid = BP_SID_VACANT
         THEN cbuf_next_pops([c EXCEPT !.oldest_cid = (@ + 1) % ValMod])
         ELSE [status |-> BP_SUCCESS,
               cbuf   |-> [c EXCEPT
                             !.table[cbuf_ati(c, c.oldest_cid)].sid =
                                 BP_SID_VACANT,
                             !.num_entries = @ - 1],
               bundle |-> c.table[cbuf_ati(c, c.oldest_cid)]]
    ELSE [status |-> BP_TIMEOUT, cbuf |-> c, bundle |-> NoBundle]

\* cbuf_next: walk oldest_cid up to newest_cid, skipping vacant slots
RECURSIVE cbuf_next(_)
cbuf_next(c) ==
    IF c.oldest_cid # c.newest_cid
    THEN IF c.table[cbuf_ati(c, c.oldest_cid)].sid = BP_SID_VACANT
         THEN cbuf_next([c EXCEPT !.oldest_cid = (@ + 1) % ValMod])
         ELSE [status |-> BP_SUCCESS, cbuf |-> c,
               bundle |-> c.table[cbuf_ati(c, c.oldest_cid)]]
    ELSE [status |-> BP_TIMEOUT, cbuf |-> c, bundle |-> NoBundle]

\* cbuf_remove moving oldest_cid past the record it removes
cbuf_remove_advances(c, cid) ==
    IF /\ c.table[cbuf_ati(c, cid)].sid # BP_SID_VACANT
       /\ c.table[cbuf_ati(c, cid)].cid = cid
    THEN [status |-> BP_SUCCESS,
          cbuf   |-> [c EXCEPT !.table[cbuf_ati(c, cid)].sid = BP_SID_VACANT,
                               !.num_entries = @ - 1,
                               !.oldest_cid = IF @ = cid
                                              THEN (cid + 1) % ValMod ELSE @],
          bundle |-> c.table[cbuf_ati(c, cid)]]
    ELSE [status |-> BP_ERROR, cbuf |-> c, bundle |-> NoBundle]

\* cbuf_remove without the CID comparison
cbuf_remove_any(c, cid) ==
    IF c.table[cbuf_ati(c, cid)].sid # BP_SID_VACANT
    THEN [status |-> BP_SUCCESS,
          cbuf   |-> [c EXCEPT !.table[cbuf_ati(c, cid)].sid = BP_SID_VACANT,
                               !.num_entries = @ - 1],
          bundle |-> c.table[cbuf_ati(c, cid)]]
    ELSE [status |-> BP_ERROR, cbuf |-> c, bundle |-> NoBundle]

\* cbuf_remove
cbuf_remove(c, cid) ==
    IF /\ c.table[cbuf_ati(c, cid)].sid # BP_SID_VACANT
       /\ c.table[cbuf_ati(c, cid)].cid = cid
    THEN [status |-> BP_SUCCESS,
          cbuf   |-> [c EXCEPT !.table[cbuf_ati(c, cid)].sid = BP_SID_VACANT,
                               !.num_entries = @ - 1],
          bundle |-> c.table[cbuf_ati(c, cid)]]
    ELSE [status |-> BP_ERROR, cbuf |-> c, bundle |-> NoBundle]

\* cbuf_available
cbuf_available(c, cid) ==
    IF c.table[cbuf_ati(c, cid)].sid = BP_SID_VACANT THEN BP_SUCCESS ELSE BP_ERROR

\* cbuf_count
cbuf_count(c) == c.num_entries

(***************************************************************************)
(* v6/v6.c: v6_build and v6_send_bundle                                    *)
(***************************************************************************)

\* BP_BUNDLE_HDR_BUF_SIZE
BP_BUNDLE_HDR_BUF_SIZE == 128

\* bytes of the payload block header: bundle_pay_blk has blklen at index 2,
\* width 4
PayHdrLen == 6

\* creation-time sentinels and the lifetime written with an unknown time
BP_TTL_CREATION_TIME == 0

BP_UNKNOWN_CREATION_TIME == 1

BP_BEST_EFFORT_LIFETIME == 9

BP_MAX_ENCODED_VALUE == TimeMod - 1

\* createseq has an SDNV field of width 2: sdnv_mask keeps 14 bits
CreateSeqMod == 2 ^ 14

\* the reading of a reliable clock
SysNow == 6

\* header lengths v6_build leaves in payoffset: a primary block alone, and a
\* header that ends PayHdrLen bytes before the end of the header buffer
PayOffsets == {52, BP_BUNDLE_HDR_BUF_SIZE - PayHdrLen}

\* attributes.max_length: a few bytes, and the sizes around a 52 + 6 byte
\* header
MaxLengths == {1, 2, 58, 59, 60}

\* attributes.lifetime
Lifetimes == {3}

\* creation times and sequences of a received primary block
RecvCreateSecs == {BP_TTL_CREATION_TIME, SysNow}

RecvCreateSeqs == {0, 7}

\* route.local_node and route.local_service of the channel, and a node and
\* a service that are not the channel's
LocalNode == 1

LocalServ == 1

OtherNode == 2

OtherServ == 2

\* v6_create: route and attributes are stored, prebuilt is cleared
v6_create(max_length, allow_fragmentation, lifetime) ==
    [max_length          |-> max_length,
     allow_fragmentation |-> allow_fragmentation,
     lifetime            |-> lifetime,
     prebuilt            |-> FALSE,
     exprtime            |-> 0,
     payoffset           |-> 0,
     headersize          |-> 0,
     bundlesize          |-> 0,
     is_frag             |-> FALSE,
     createsec           |-> 0,
     createseq           |-> 0,
     pri_lifetime        |-> 0,
     hdr_lifetime        |-> 0,
     fragoffset          |-> 0,
     paylen              |-> 0,
     paysize             |-> 0,
     pay_blklen          |-> 0,
     hdr_is_frag         |-> FALSE,
     hdr_createsec       |-> 0,
     hdr_createseq       |-> 0,
     local_node          |-> LocalNode,
     local_service       |-> LocalServ,
     ignore_expiration   |-> FALSE,
     integrity_check     |-> FALSE]

\* v6_build: data is zeroed, the primary block is the caller's (pri given:
\* prebuilt cleared) or the library's bundle_pri_blk (prebuilt set), pri_write
\* serializes it into the header (the hdr_ fields: the is-fragment flag of
\* the processing control flags, creation time and sequence, lifetime), and
\* payoffset is the length of the header that was written
v6_build(b, pri, hdr_index) ==
    [b EXCEPT !.exprtime     = 0,
              !.headersize   = 0,
              !.bundlesize   = 0,
              !.payoffset    = hdr_index,
              !.prebuilt     = (pri.given = FALSE),
              !.is_frag      = IF pri.given THEN pri.is_frag ELSE FALSE,
              !.createsec    = IF pri.given THEN pri.createsec ELSE 0,
              !.createseq    = IF pri.given THEN pri.createseq ELSE 0,
              !.pri_lifetime = IF pri.given THEN pri.lifetime ELSE b.lifetime,
              !.hdr_lifetime = IF pri.given THEN pri.lifetime ELSE b.lifetime,
              !.fragoffset   = IF pri.given THEN pri.fragoffset ELSE 0,
              !.paylen       = IF pri.given THEN pri.paylen ELSE 0,
              !.paysize      = 0,
              !.pay_blklen   = 0,
              !.hdr_is_frag  = IF pri.given THEN pri.is_frag ELSE FALSE,
              !.hdr_createsec = IF pri.given THEN pri.createsec ELSE 0,
              !.hdr_createseq = IF pri.given THEN pri.createseq ELSE 0]

\* the primary blocks v6_build is called with: none (v6_populate_bundle) or
\* the one v6_receive_bundle read
NoPri ==
    [given |-> FALSE, is_frag |-> FALSE, createsec |-> 0, createseq |-> 0,
     lifetime |-> 0, fragoffset |-> 0, paylen |-> 0]

ReceivedPris ==
    {[given |-> TRUE, is_frag |-> f, createsec |-> cs, createseq |-> cq,
      lifetime |-> lt, fragoffset |-> IF f THEN 2 ELSE 0,
      paylen |-> IF f THEN 5 ELSE 0] :
        f \in BOOLEAN, cs \in RecvCreateSecs, cq \in RecvCreateSeqs,
        lt \in Lifetimes}

\* max_paysize, v6_send_bundle
send_max_paysize(b) == b.max_length - b.headersize

\* the fragmentation check that never refuses a payload
send_check_never_refuses(b, size) ==
    IF size > send_max_paysize(b)
    THEN "fragment"
    ELSE IF send_max_paysize(b) <= 0 THEN "too_large" ELSE "whole"

\* v6_send_bundle, Check Fragmentation
send_check(b, size) ==
    IF size > send_max_paysize(b)
    THEN IF b.allow_fragmentation THEN "fragment" ELSE "too_large"
    ELSE IF send_max_paysize(b) <= 0 THEN "too_large" ELSE "whole"

\* v6_send_bundle, Set Expiration Time of Bundle
send_exprtime(createsec, lifetime) ==
    IF createsec = BP_TTL_CREATION_TIME
    THEN [exprtime |-> BP_TTL_CREATION_TIME, overflow |-> FALSE]
    ELSE IF createsec = BP_UNKNOWN_CREATION_TIME
         THEN [exprtime |-> BP_UNKNOWN_CREATION_TIME, overflow |-> FALSE]
         ELSE IF (createsec + lifetime) % TimeMod < createsec
              THEN [exprtime |-> BP_MAX_ENCODED_VALUE, overflow |-> TRUE]
              ELSE [exprtime |-> (createsec + lifetime) % TimeMod,
                    overflow |-> FALSE]

\* pay_write with the canonical layout into the size bytes left in the header
\* buffer: PayHdrLen bytes, or an error when they do not fit
pay_write(size) == IF size < PayHdrLen THEN -1 ELSE PayHdrLen

\* no call of v6_send_bundle is in progress and none was made
NoSend ==
    [pc |-> "idle", started |-> FALSE, size |-> 0, max_paysize |-> 0,
     payload_offset |-> 0, lifetime |-> 0, ret |-> BP_SUCCESS, flags |-> {},
     createseq0 |-> 0]

\* the bundle structures after v6_create and the first v6_build
BuiltBundles ==
    {v6_build(v6_create(ml, af, lt), pri, po) :
        ml \in MaxLengths, af \in BOOLEAN, lt \in Lifetimes,
        pri \in {NoPri} \cup ReceivedPris, po \in PayOffsets}

\* the bundle structures built without a primary block of the caller after
\* CreateSeqMod - MaxSeq sends of an empty payload
SentBundles ==
    {[b EXCEPT !.createseq     = CreateSeqMod - MaxSeq,
               !.hdr_createseq = CreateSeqMod - MaxSeq - 1,
               !.createsec     = SysNow,
               !.hdr_createsec = SysNow,
               !.exprtime      = send_exprtime(SysNow, b.pri_lifetime).exprtime] :
        b \in {x \in BuiltBundles : x.prebuilt}}

\* a bundle structure is built, no payload byte was sent; the table is not
\* used
SendInit ==
    /\ bundle \in BuiltBundles \cup SentBundles
    /\ send = NoSend
    /\ store = <<>>
    /\ cbuf = cbuf_create(1)
    /\ cb_op = "create"
    /\ cb_ret = BP_SUCCESS
    /\ cb_out = NoBundle
    /\ reuse = [done |-> "off", k |-> 0]
    /\ rx = NoRecv
    /\ expr = NoExpr
    /\ build = NoCall
    /\ bib = NoCall
    /\ sysclock = NoCall
    /\ mem = NoCall
    /\ locks = NoCall

\* v6_build on the bundle structure, between two sends
V6Build(pri, hdr_index) ==
    /\ send.pc = "idle"
    /\ bundle' = v6_build(bundle, pri, hdr_index)
    /\ send' = NoSend
    /\ store' = <<>>
    /\ UNCHANGED <<cbuf_vars, reuse, recv_vars, lib_vars>>

\* the creation time of an unreliable clock taken as it reads
send_createsec_keeps_clock(b, reliable) ==
    IF b.prebuilt THEN SysNow ELSE b.createsec

\* the creation time taken from the clock whatever prebuilt says
send_createsec_always(b, reliable) ==
    IF reliable THEN SysNow ELSE BP_UNKNOWN_CREATION_TIME

\* v6_send_bundle, Check if Time Needs to be Set: pri->createsec.value
send_createsec(b, reliable) ==
    IF b.prebuilt
    THEN IF reliable THEN SysNow ELSE BP_UNKNOWN_CREATION_TIME
    ELSE b.createsec

\* v6_send_bundle from its entry to the fragment loop: the fragmentation
\* check, the creation time of a prebuilt bundle, the expiration time
V6SendBegin(size, reliable) ==
    /\ send.pc = "idle"
    /\ \/ bundle.createseq < MaxSeq
       \/ bundle.createseq >= CreateSeqMod - MaxSeq
       \/ ~bundle.prebuilt
    /\ store' = <<>>
    /\ LET check    == send_check(bundle, size)
           createsec == send_createsec(bundle, reliable)
           lifetime == IF bundle.prebuilt /\ ~reliable
                       THEN BP_BEST_EFFORT_LIFETIME
                       ELSE bundle.pri_lifetime
           et       == send_exprtime(createsec, lifetime)
           call     == [pc |-> "idle", started |-> TRUE, size |-> size,
                        max_paysize |-> send_max_paysize(bundle),
                        payload_offset |-> 0, lifetime |-> lifetime,
                        ret |-> BP_SUCCESS, flags |-> {},
                        createseq0 |-> bundle.createseq]
       IN  IF check = "too_large"
           THEN /\ bundle' = [bundle EXCEPT !.paysize = size]
                /\ send' = [call EXCEPT !.ret = BP_ERROR,
                                        !.flags = {"BUNDLE_TOO_LARGE"}]
           ELSE /\ bundle' =
                     [bundle EXCEPT
                        !.paysize = size,
                        !.is_frag = IF check = "fragment" THEN TRUE ELSE @,
                        !.createsec = createsec,
                        !.hdr_lifetime = IF bundle.prebuilt /\ ~reliable
                                         THEN BP_BEST_EFFORT_LIFETIME ELSE @,
                        !.hdr_createsec = IF bundle.prebuilt
                                          THEN createsec ELSE @,
                        !.hdr_createseq = IF bundle.prebuilt
                                          THEN bundle.createseq ELSE @,
                        !.exprtime = et.exprtime]
                /\ send' =
                     [call EXCEPT
                        !.pc = "loop",
                        !.flags =
                            (IF bundle.prebuilt /\ ~reliable
                             THEN {"UNRELIABLE_TIME"} ELSE {})
                            \cup (IF et.overflow
                                  THEN {"SDNV_OVERFLOW"} ELSE {})]
    /\ UNCHANGED <<cbuf_vars, reuse, recv_vars, lib_vars>>

\* what the storage collaborator is handed: the payload bytes
\* offset .. offset + size - 1 and the header as it is serialized then
StoredFragment(b, offset, size) ==
    [offset     |-> offset,
     size       |-> size,
     is_frag    |-> b.hdr_is_frag,
     fragoffset |-> b.fragoffset,
     paylen     |-> b.paylen,
     createsec  |-> b.hdr_createsec,
     createseq  |-> b.hdr_createseq,
     lifetime   |-> b.hdr_lifetime]

\* the fragment size without the test against the bytes that remain
send_fragment_size_no_min(max_paysize, payload_remaining) == max_paysize

\* min(max_paysize, payload_remaining)
send_fragment_size(max_paysize, payload_remaining) ==
    IF max_paysize < payload_remaining THEN max_paysize ELSE payload_remaining

\* the answer of the storage collaborator not looked at
send_stored_unchecked(s, status, fragment_size) ==
    [s EXCEPT !.payload_offset = @ + fragment_size]

\* the call after create(...) answered: STORE_FAILURE ends it, success moves
\* payload_offset on
send_stored(s, status, fragment_size) ==
    IF status # BP_SUCCESS
    THEN [s EXCEPT !.pc = "idle", !.ret = BP_ERROR,
                   !.flags = @ \cup {"STORE_FAILURE"}]
    ELSE [s EXCEPT !.payload_offset = @ + fragment_size]

\* one pass of the fragment loop: the fragment is described in the header and
\* handed to the storage collaborator, which answers with status
V6SendFragment(status) ==
    /\ send.pc = "loop"
    /\ send.payload_offset < bundle.paysize
    /\ Len(store) < MaxCalls
    /\ LET fragment_size ==
               send_fragment_size(send.max_paysize,
                                  bundle.paysize - send.payload_offset)
           bytes_written ==
               pay_write(BP_BUNDLE_HDR_BUF_SIZE - bundle.payoffset)
           b1 == [bundle EXCEPT
                    !.fragoffset = IF bundle.is_frag
                                   THEN send.payload_offset ELSE @,
                    !.paylen     = IF bundle.is_frag THEN bundle.paysize ELSE @,
                    !.pay_blklen = fragment_size]
       IN  IF bytes_written < 0
           THEN /\ bundle' = b1
                /\ send' = [send EXCEPT !.pc = "idle", !.ret = BP_ERROR,
                                        !.flags = @ \cup {"FAILED_TO_PARSE"}]
                /\ store' = store
           ELSE /\ bundle' =
                     [b1 EXCEPT
                        !.headersize = bundle.payoffset + bytes_written,
                        !.bundlesize =
                            bundle.payoffset + bytes_written + fragment_size]
                /\ store' = Append(store, StoredFragment(b1,
                                       send.payload_offset, fragment_size))
                /\ send' = send_stored(send, status, fragment_size)
    /\ UNCHANGED <<cbuf_vars, reuse, recv_vars, lib_vars>>

\* the creation sequence incremented without sdnv_mask
send_next_createseq_unmasked(b) ==
    IF b.prebuilt THEN b.createseq + 1 ELSE b.createseq

\* Increment Sequence Count: createseq.value++ and sdnv_mask, if prebuilt
send_next_createseq(b) ==
    IF b.prebuilt THEN (b.createseq + 1) % CreateSeqMod ELSE b.createseq

\* the loop is left: a prebuilt bundle gets the next creation sequence
V6SendFinish ==
    /\ send.pc = "loop"
    /\ ~(send.payload_offset < bundle.paysize)
    /\ bundle' = [bundle EXCEPT !.createseq = send_next_createseq(bundle)]
    /\ send' = [send EXCEPT !.pc = "idle", !.ret = BP_SUCCESS]
    /\ UNCHANGED store
    /\ UNCHANGED <<cbuf_vars, reuse, recv_vars, lib_vars>>

SendStep ==
    \/ \E pri \in {NoPri} \cup ReceivedPris, po \in PayOffsets :
          V6Build(pri, po)
    \/ \E size \in 0 .. MaxPay, reliable \in BOOLEAN :
          V6SendBegin(size, reliable)
    \/ \E status \in {BP_SUCCESS, BP_ERROR} : V6SendFragment(status)
    \/ V6SendFinish

(***************************************************************************)
(* v6/v6.c: v6_receive_bundle                                              *)
(***************************************************************************)

BP_PENDING_EXPIRATION == "BP_PENDING_EXPIRATION"

BP_PENDING_FORWARD == "BP_PENDING_FORWARD"

BP_PENDING_ACCEPTANCE == "BP_PENDING_ACCEPTANCE"

BP_PENDING_ACKNOWLEDGMENT == "BP_PENDING_ACKNOWLEDGMENT"

BP_NUM_EXCLUDE_REGIONS == 16

BP_IPN_NULL == 0

\* administrative record types: the first byte of the payload
BP_ACS_REC_TYPE == "ACS"

BP_CS_REC_TYPE == "CS"

BP_STAT_REC_TYPE == "STAT"

RecTypes == {BP_ACS_REC_TYPE, BP_CS_REC_TYPE, BP_STAT_REC_TYPE, "other"}

\* bytes of a received primary block, CTEB, BIB and unrecognized block
RecvPriLen == 52

CtebLen == 10

BibLen == 15

ExtLen == 20

\* the custodian and report-to endpoint of a received primary block, and the
\* custody id and custodian of a received CTEB
PriCstNode == 3

PriCstServ == 4

PriRptNode == 5

CtebCid == 6

CtebCstNode == 7

CtebCstServ == 8

\* creation times of received bundles: the two sentinels, three whose
\* expiration time (with the lifetime of Lifetimes) lies before, at and after
\* SysNow, and one whose expiration time wraps
InCreateSecs ==
    {BP_TTL_CREATION_TIME, BP_UNKNOWN_CREATION_TIME, SysNow - 4, SysNow - 3,
     SysNow - 2, BP_MAX_ENCODED_VALUE - 1}

\* the blocks that can stand between the primary block and the payload
\* block: a BIB (parsed or not, its CRC matching the payload or not), a CTEB
\* (parsed or not), an unrecognized block with its processing flags (or with
\* flag and length SDNVs that end early)
InBlock(type, ok, crc_ok, flags) ==
    [type |-> type, ok |-> ok, crc_ok |-> crc_ok, flags |-> flags]

InBlocks ==
    {InBlock("BIB", TRUE, TRUE, {}), InBlock("BIB", TRUE, FALSE, {}),
     InBlock("BIB", FALSE, TRUE, {}),
     InBlock("CTEB", TRUE, TRUE, {}), InBlock("CTEB", FALSE, TRUE, {}),
     InBlock("EXT", TRUE, TRUE, {}), InBlock("EXT", TRUE, TRUE, {"NOTIFY"}),
     InBlock("EXT", TRUE, TRUE, {"DELETE"}), InBlock("EXT", TRUE, TRUE, {"DROP"}),
     InBlock("EXT", TRUE, TRUE, {"DELETE", "DROP"}),
     InBlock("EXT", FALSE, TRUE, {})}

InBlockSeqs == UNION {[1 .. n -> InBlocks] : n \in 0 .. MaxBlocks}

\* bytes of a block of the input buffer
BlockLen(blk) ==
    IF blk.type = "BIB" THEN BibLen
    ELSE IF blk.type = "CTEB" THEN CtebLen ELSE ExtLen

\* the primary block of a received bundle as pri_read leaves it in pri_blk
InPri(parse, dictlen, createsec, dst, is_admin_rec, cst_rqst) ==
    [given |-> TRUE, parse |-> parse, dictlen |-> dictlen,
     createsec |-> createsec, createseq |-> 7, lifetime |-> 3,
     dstnode |-> dst[1], dstserv |-> dst[2],
     cstnode |-> PriCstNode, cstserv |-> PriCstServ,
     rptnode |-> PriRptNode, rptserv |-> 0,
     is_admin_rec |-> is_admin_rec, cst_rqst |-> cst_rqst,
     is_frag |-> FALSE, fragoffset |-> 0, paylen |-> 0]

InDests ==
    {<<OtherNode, LocalServ>>, <<LocalNode, 0>>, <<LocalNode, LocalServ>>,
     <<LocalNode, OtherServ>>}

InPris ==
    {InPri("ok", 0, cs, dst, adm, cst) :
        cs \in InCreateSecs, dst \in InDests, adm \in BOOLEAN, cst \in BOOLEAN}
    \cup {InPri("bad", 0, SysNow - 2, <<LocalNode, LocalServ>>, FALSE, FALSE),
          InPri("ok", 1, SysNow - 4, <<LocalNode, LocalServ>>, FALSE, FALSE)}

\* the payload block of a received bundle: absent, not parsed, or parsed with
\* its size and first byte
InPay(present, ok, paysize, rec_type) ==
    [present |-> present, ok |-> ok, paysize |-> paysize, rec_type |-> rec_type]

InPays ==
    {InPay(FALSE, TRUE, 0, "other"), InPay(TRUE, FALSE, 0, "other"),
     InPay(TRUE, TRUE, 1, "other")}
    \cup {InPay(TRUE, TRUE, 2, t) : t \in RecTypes}

\* a received bundle
Input(pri, blocks, pay) == [pri |-> pri, blocks |-> blocks, pay |-> pay]

\* what bplib_os_systime answers
Clocks == {[reliable |-> r, sysnow |-> SysNow] : r \in BOOLEAN}

\* bplog: the event is set in the flags and BP_ERROR is returned
bplog(st, event) ==
    [st EXCEPT !.status = BP_ERROR, !.flags = @ \cup {event}]

\* v6_is_expired taking an expiration time equal to the clock as not yet
\* passed
v6_is_expired_strict(b, sysnow, exprtime, unrelt) ==
    /\ ~unrelt
    /\ ~b.ignore_expiration
    /\ exprtime # BP_UNKNOWN_CREATION_TIME
    /\ exprtime # BP_TTL_CREATION_TIME
    /\ sysnow > exprtime

\* v6_is_expired
v6_is_expired(b, sysnow, exprtime, unrelt) ==
    /\ ~unrelt
    /\ ~b.ignore_expiration
    /\ exprtime # BP_UNKNOWN_CREATION_TIME
    /\ exprtime # BP_TTL_CREATION_TIME
    /\ sysnow >= exprtime

\* the locals of v6_receive_bundle when the scan of the blocks begins, and
\* what the call has changed: the caller's payload structure, the blocks of
\* the input buffer it wrote to, the bundle structure (rebuilt)
RecvLocals(in, flags, exprtime) ==
    [status |-> BP_SUCCESS, flags |-> flags, branch |-> "scan",
     exprtime |-> exprtime, ei |-> 2,
     index |-> RecvPriLen, exclude |-> <<0, RecvPriLen>>, offs |-> <<>>,
     bib_present |-> FALSE, bib_crc_ok |-> TRUE, cteb_present |-> FALSE,
     hdr_len |-> 0, hdr_buf |-> <<>>, header |-> <<>>, written |-> {},
     payload |-> [set |-> FALSE, exprtime |-> 0, payloadsize |-> 0,
                  node |-> BP_IPN_NULL, service |-> BP_IPN_NULL,
                  cid_set |-> FALSE, cid |-> 0],
     rebuilt |-> FALSE, build_ok |-> FALSE, pri_blk |-> in.pri]

(***************************************************************************)
(* The expiration time, as v6_send_bundle and v6_receive_bundle compute it *)
(***************************************************************************)

\* the receive path without its test for the TTL sentinel
recv_exprtime_no_ttl(createsec, lifetime) ==
    IF createsec = BP_UNKNOWN_CREATION_TIME
    THEN [exprtime |-> BP_UNKNOWN_CREATION_TIME, overflow |-> FALSE]
    ELSE IF (createsec + lifetime) % TimeMod < createsec
         THEN [exprtime |-> BP_MAX_ENCODED_VALUE, overflow |-> TRUE]
         ELSE [exprtime |-> (createsec + lifetime) % TimeMod,
               overflow |-> FALSE]

\* v6_receive_bundle, Calculate Bundle's Expiration Time
recv_exprtime(createsec, lifetime) ==
    IF createsec = BP_UNKNOWN_CREATION_TIME
    THEN [exprtime |-> BP_UNKNOWN_CREATION_TIME, overflow |-> FALSE]
    ELSE IF createsec = BP_TTL_CREATION_TIME
         THEN [exprtime |-> BP_TTL_CREATION_TIME, overflow |-> FALSE]
         ELSE IF (createsec + lifetime) % TimeMod < createsec
              THEN [exprtime |-> BP_MAX_ENCODED_VALUE, overflow |-> TRUE]
              ELSE [exprtime |-> (createsec + lifetime) % TimeMod,
                    overflow |-> FALSE]

\* every creation time and lifetime of the modelled width
ExprInit ==
    /\ \E cs \in 0 .. (TimeMod - 1), lt \in 0 .. (TimeMod - 1) :
          expr = [createsec |-> cs, lifetime |-> lt,
                  sent |-> FALSE, received |-> FALSE]
    /\ rx = NoRecv
    /\ build = NoCall
    /\ bib = NoCall
    /\ sysclock = NoCall
    /\ mem = NoCall
    /\ locks = NoCall
    /\ bundle = v6_create(0, FALSE, 0)
    /\ send = NoSend
    /\ store = <<>>
    /\ cbuf = cbuf_create(1)
    /\ cb_op = "create"
    /\ cb_ret = BP_SUCCESS
    /\ cb_out = NoBundle
    /\ reuse = [done |-> "off", k |-> 0]

\* the send path computes data->exprtime
ExprSend ==
    /\ ~expr.sent
    /\ expr' = [createsec |-> expr.createsec, lifetime |-> expr.lifetime,
                sent |-> TRUE, received |-> expr.received,
                send_result |-> send_exprtime(expr.createsec, expr.lifetime),
                recv_result |-> IF expr.received THEN expr.recv_result
                                ELSE send_exprtime(0, 0)]
    /\ UNCHANGED <<cbuf_vars, send_vars, reuse, rx, lib_vars>>

\* the receive path computes exprtime
ExprRecv ==
    /\ ~expr.received
    /\ expr' = [createsec |-> expr.createsec, lifetime |-> expr.lifetime,
                sent |-> expr.sent, received |-> TRUE,
                send_result |-> IF expr.sent THEN expr.send_result
                                ELSE send_exprtime(0, 0),
                recv_result |-> recv_exprtime(expr.createsec, expr.lifetime)]
    /\ UNCHANGED <<cbuf_vars, send_vars, reuse, rx, lib_vars>>

ExprStep == ExprSend \/ ExprRecv

SpecExpr == ExprInit /\ [][ExprStep]_vars

(***************************************************************************)
(* v6_receive_bundle: the scan of the blocks and the disposition           *)
(***************************************************************************)

\* an unrecognized block whose DELETE-BUNDLE-ON-NOPROC flag is not honoured
recv_ext_keeps(blk, i, st) ==
    [st EXCEPT !.flags   = @ \cup {"INCOMPLETE"},
               !.offs    = Append(@, st.index),
               !.index   = @ + ExtLen,
               !.ei      = IF "DROP" \in blk.flags THEN @ + 2 ELSE @,
               !.exclude = IF "DROP" \in blk.flags
                           THEN @ \o <<st.index, st.index + ExtLen>> ELSE @,
               !.written = IF "DROP" \in blk.flags THEN @ ELSE @ \cup {i}]

\* an unrecognized block: its flag and length SDNVs are read (the test for a
\* failed read looks at all flags the call has set so far) and index moves
\* behind the block unless that test fails, then its processing flags are
\* honoured: the block is put on the exclusion list, or its flags are
\* written back to the buffer with FORWARD-W/O-PROC
recv_ext(blk, i, st) ==
    LET f1     == IF blk.ok THEN st.flags
                  ELSE st.flags \cup {"SDNV_INCOMPLETE"}
        failed == f1 \cap {"SDNV_OVERFLOW", "SDNV_INCOMPLETE"} # {}
        f2     == (IF failed THEN f1 \cup {"FAILED_TO_PARSE"} ELSE f1)
                     \cup {"INCOMPLETE"}
        f3     == IF "NOTIFY" \in blk.flags
                  THEN f2 \cup {"NONCOMPLIANT"} ELSE f2
        delete == "DELETE" \in blk.flags
        drop   == "DROP" \in blk.flags
        index  == IF failed THEN st.index ELSE st.index + ExtLen
    IN  [st EXCEPT
           !.flags   = IF delete THEN f3 \cup {"DROPPED"} ELSE f3,
           !.status  = IF failed \/ delete THEN BP_ERROR ELSE BP_SUCCESS,
           !.branch  = IF delete THEN "dropped"
                       ELSE IF failed THEN "parse" ELSE @,
           !.offs    = Append(@, st.index),
           !.index   = index,
           !.ei      = IF drop THEN @ + 2 ELSE @,
           !.exclude = IF drop THEN @ \o <<st.index, index>> ELSE @,
           !.written = IF drop THEN @ ELSE @ \cup {i}]

\* custody transfer that takes a bundle without a CTEB
recv_custody_accepts(in, st, pending) ==
    [st EXCEPT !.status = pending,
               !.payload.node = BP_IPN_NULL,
               !.payload.service = BP_IPN_NULL]

\* custody transfer of a bundle that is forwarded or accepted: the caller
\* gets the custodian and custody id of the CTEB, and without a CTEB the
\* bundle is refused
recv_custody(in, st, pending) ==
    LET st1 == [st EXCEPT !.status = pending,
                          !.payload.node = BP_IPN_NULL,
                          !.payload.service = BP_IPN_NULL]
    IN  IF in.pri.cst_rqst
        THEN IF st.cteb_present
             THEN [st1 EXCEPT !.payload.node = CtebCstNode,
                              !.payload.service = CtebCstServ,
                              !.payload.cid_set = TRUE,
                              !.payload.cid = CtebCid]
             ELSE bplog(st1, "NONCOMPLIANT")
        ELSE st1

\* a v6_build that fills the header buffer to its last byte
v6_build_hdr_full(cst_rqst, integrity_check, hdr_len) ==
    LET cteboffset == RecvPriLen
        biboffset  == cteboffset + (IF cst_rqst THEN CtebLen ELSE 0)
        hdr_index  == biboffset + (IF integrity_check THEN BibLen ELSE 0)
    IN  IF hdr_index + hdr_len <= BP_BUNDLE_HDR_BUF_SIZE
        THEN [status |-> BP_SUCCESS, flags |-> {},
              payoffset |-> hdr_index + hdr_len]
        ELSE [status |-> BP_ERROR, flags |-> {"BUNDLE_TOO_LARGE"},
              payoffset |-> 0]

\* v6_build, the header: pri_write, cteb_write when custody is requested,
\* bib_write when the channel checks integrity, then the forwarded blocks if
\* they leave a byte of the header buffer free; payoffset is the length of
\* the header
v6_build_hdr(cst_rqst, integrity_check, hdr_len) ==
    LET cteboffset == RecvPriLen
        biboffset  == cteboffset + (IF cst_rqst THEN CtebLen ELSE 0)
        hdr_index  == biboffset + (IF integrity_check THEN BibLen ELSE 0)
    IN  IF hdr_index + hdr_len < BP_BUNDLE_HDR_BUF_SIZE
        THEN [status |-> BP_SUCCESS, flags |-> {},
              payoffset |-> hdr_index + hdr_len]
        ELSE [status |-> BP_ERROR, flags |-> {"BUNDLE_TOO_LARGE"},
              payoffset |-> 0]

\* a block of a header: built by v6_build or copied from input block at
HdrBlock(type, at, flags, cstnode, cstserv) ==
    [type |-> type, at |-> at, flags |-> flags,
     cstnode |-> cstnode, cstserv |-> cstserv]

\* the blocks v6_build writes in front of the forwarded ones
v6_build_blocks(b, pri) ==
    <<HdrBlock("PRI", 0, {}, pri.cstnode, pri.cstserv)>>
    \o (IF pri.cst_rqst
        THEN <<HdrBlock("CTEB", 0, {}, b.local_node, b.local_service)>>
        ELSE <<>>)
    \o (IF b.integrity_check
        THEN <<HdrBlock("BIB", 0, {}, 0, 0)>> ELSE <<>>)

\* Copy Non-excluded Header Regions: the bytes between the excluded regions,
\* from C index i of the exclusion list on; -1 when they do not fit
RECURSIVE recv_copy(_, _, _)
recv_copy(exclude, i, hdr_index) ==
    IF i + 1 < Len(exclude)
    THEN LET bytes_to_copy == exclude[i + 2] - exclude[i + 1]
         IN  IF hdr_index + bytes_to_copy >= BP_BUNDLE_HDR_BUF_SIZE
             THEN -1
             ELSE recv_copy(exclude, i + 2, hdr_index + bytes_to_copy)
    ELSE hdr_index

\* a copy that takes every block in front of the payload block
recv_hdr_buf_all(in, st) ==
    [k \in 1 .. Len(st.offs) |->
        HdrBlock(in.blocks[k].type, k,
                 IF k \in st.written
                 THEN in.blocks[k].flags \cup {"FORWARDNOPROC"}
                 ELSE in.blocks[k].flags,
                 0, 0)]

\* the input blocks that lie in the copied regions, as they stand in the
\* buffer when they are copied
recv_hdr_buf(in, st) ==
    LET copied == {k \in 1 .. Len(st.offs) :
                     \E i \in 1 .. Len(st.exclude) - 2 :
                        /\ i % 2 = 1
                        /\ st.exclude[i + 1] <= st.offs[k]
                        /\ st.offs[k] + BlockLen(in.blocks[k])
                              <= st.exclude[i + 2]}
        nth(n) == CHOOSE k \in copied :
                     Cardinality({j \in copied : j < k}) = n - 1
        buf(k) == LET blk == in.blocks[k]
                  IN  IF blk.type = "CTEB"
                      THEN HdrBlock("CTEB", k, {}, CtebCstNode, CtebCstServ)
                      ELSE HdrBlock(blk.type, k,
                                    IF k \in st.written
                                    THEN blk.flags \cup {"FORWARDNOPROC"}
                                    ELSE blk.flags,
                                    0, 0)
    IN  [n \in 1 .. Cardinality(copied) |-> buf(nth(n))]

\* Process Payload, forward bundle: the custodian is patched, the header
\* regions are copied, the bundle structure is rebuilt, custody is handled
recv_forward(b, in, st) ==
    LET pri1 == IF in.pri.cst_rqst
                THEN [in.pri EXCEPT !.rptnode = 0, !.rptserv = 0,
                                    !.cstnode = b.local_node,
                                    !.cstserv = b.local_service]
                ELSE in.pri
        st1  == [st EXCEPT !.branch = "forward", !.pri_blk = pri1]
        hdr_index == recv_copy(st.exclude, 1, 0)
        bld  == v6_build_hdr(pri1.cst_rqst, b.integrity_check, hdr_index)
    IN  IF hdr_index < 0
        THEN bplog(st1, "BUNDLE_TOO_LARGE")
        ELSE IF bld.status = BP_SUCCESS
             THEN recv_custody(in, [st1 EXCEPT
                                      !.rebuilt = TRUE,
                                      !.build_ok = TRUE,
                                      !.hdr_len = bld.payoffset,
                                      !.hdr_buf = recv_hdr_buf(in, st),
                                      !.header = v6_build_blocks(b, pri1)
                                                 \o recv_hdr_buf(in, st)],
                               BP_PENDING_FORWARD)
             ELSE bplog([st1 EXCEPT !.rebuilt = TRUE], "BUNDLE_TOO_LARGE")

\* Process Payload, Administrative Record
recv_admin(in, st) ==
    LET st1 == [st EXCEPT !.branch = "admin"]
    IN  IF in.pay.rec_type = BP_ACS_REC_TYPE
        THEN [st1 EXCEPT !.status = BP_PENDING_ACKNOWLEDGMENT,
                         !.payload.node = in.pri.cstnode,
                         !.payload.service = in.pri.cstserv]
        ELSE IF in.pay.rec_type \in {BP_CS_REC_TYPE, BP_STAT_REC_TYPE}
             THEN bplog(st1, "NONCOMPLIANT")
             ELSE bplog(st1, "UNKNOWNREC")

\* the payload block: it is parsed, the caller's payload structure is set,
\* the integrity check and the size check of an administrative record are
\* made, and the bundle is forwarded, refused, taken as a record or accepted
recv_payload(b, in, st) ==
    IF ~in.pay.ok
    THEN bplog([st EXCEPT !.branch = "parse", !.ei = @ + 1,
                          !.exclude = Append(@, st.index)],
               "FAILED_TO_PARSE")
    ELSE LET st1 == [st EXCEPT !.ei = @ + 2,
                               !.exclude = @ \o <<st.index,
                                                  st.index + PayHdrLen
                                                     + in.pay.paysize>>,
                               !.index = @ + PayHdrLen,
                               !.payload.set = TRUE,
                               !.payload.exprtime = st.exprtime,
                               !.payload.payloadsize = in.pay.paysize]
         IN  IF st.bib_present /\ ~st.bib_crc_ok
             THEN bplog([st1 EXCEPT !.branch = "integrity"],
                        "FAILED_INTEGRITY_CHECK")
             ELSE IF in.pri.is_admin_rec /\ in.pay.paysize < 2
                  THEN bplog([st1 EXCEPT !.branch = "parse"],
                             "FAILED_TO_PARSE")
                  ELSE IF in.pri.dstnode # b.local_node
                       THEN recv_forward(b, in, st1)
                       ELSE IF /\ in.pri.dstserv # 0
                               /\ in.pri.dstserv # b.local_service
                            THEN bplog([st1 EXCEPT !.branch = "route"],
                                       "ROUTE_NEEDED")
                            ELSE IF in.pri.is_admin_rec
                                 THEN recv_admin(in, st1)
                                 ELSE recv_custody(
                                          in,
                                          [st1 EXCEPT !.branch = "deliver"],
                                          BP_PENDING_ACCEPTANCE)

\* Parse and Process Remaining Blocks, from block i on: the loop ends at the
\* end of the buffer, at the payload block, or when a block set an error
\* a scan that never finds the exclusion list full
recv_no_room_never(ei) == FALSE

\* Check for Room in Exclude Region Array, at the start of a block
recv_no_room(ei) == ei >= BP_NUM_EXCLUDE_REGIONS - 2

RECURSIVE recv_scan(_, _, _, _)
recv_scan(b, in, i, st) ==
    IF i > Len(in.blocks) /\ ~in.pay.present
    THEN [st EXCEPT !.branch = "end"]
    ELSE IF recv_no_room(st.ei)
         THEN bplog([st EXCEPT !.branch = "exclude"], "NONCOMPLIANT")
         ELSE IF i > Len(in.blocks)
              THEN recv_payload(b, in, st)
              ELSE LET blk == in.blocks[i]
                   IN  IF blk.type = "BIB"
                       THEN IF blk.ok
                            THEN recv_scan(b, in, i + 1,
                                     [st EXCEPT !.bib_present = TRUE,
                                                !.bib_crc_ok = blk.crc_ok,
                                                !.offs = Append(@, st.index),
                                                !.index = @ + BibLen,
                                                !.exclude =
                                                    @ \o <<st.index,
                                                           st.index + BibLen>>,
                                                !.ei = @ + 2])
                            ELSE bplog([st EXCEPT !.branch = "parse",
                                                  !.bib_present = TRUE,
                                                  !.exclude =
                                                      Append(@, st.index),
                                                  !.ei = @ + 1],
                                       "FAILED_TO_PARSE")
                       ELSE IF blk.type = "CTEB"
                            THEN IF blk.ok
                                 THEN recv_scan(b, in, i + 1,
                                          [st EXCEPT !.cteb_present = TRUE,
                                                     !.offs =
                                                         Append(@, st.index),
                                                     !.index = @ + CtebLen])
                                 ELSE bplog([st EXCEPT !.branch = "parse",
                                                       !.cteb_present = TRUE],
                                            "FAILED_TO_PARSE")
                            ELSE LET st1 == recv_ext(blk, i, st)
                                 IN  IF st1.status = BP_SUCCESS
                                     THEN recv_scan(b, in, i + 1, st1)
                                     ELSE st1

\* v6_receive_bundle: the primary block, the expiration time, the clock, and
\* the scan of the blocks that follow
v6_receive_bundle(b, in, clock) ==
    LET et  == recv_exprtime(in.pri.createsec, in.pri.lifetime)
        f0  == IF et.overflow THEN {"SDNV_OVERFLOW"} ELSE {}
        f1  == IF clock.reliable THEN f0 ELSE f0 \cup {"UNRELIABLE_TIME"}
        st0 == RecvLocals(in, {}, 0)
    IN  IF in.pri.parse # "ok"
        THEN bplog([st0 EXCEPT !.branch = "pri", !.ei = 1,
                               !.exclude = <<0>>],
                   "FAILED_TO_PARSE")
        ELSE IF in.pri.dictlen # 0
             THEN bplog([st0 EXCEPT !.branch = "dictlen"], "NONCOMPLIANT")
             ELSE IF v6_is_expired(b, clock.sysnow, et.exprtime,
                                   ~clock.reliable)
                  THEN [RecvLocals(in, f1, et.exprtime) EXCEPT
                          !.status = BP_PENDING_EXPIRATION,
                          !.branch = "expired"]
                  ELSE recv_scan(b, in, 1, RecvLocals(in, f1, et.exprtime))

\* the bundle structure after the call
recv_bundle(b, r) ==
    IF r.rebuilt
    THEN v6_build(b, r.pri_blk, IF r.build_ok THEN r.hdr_len ELSE 0)
    ELSE b

\* a channel is created and its bundle structure built; nothing was received
RecvInit ==
    /\ \E ig \in BOOLEAN :
          bundle = [v6_build(v6_create(60, TRUE, 3), NoPri, RecvPriLen)
                      EXCEPT !.ignore_expiration = ig]
    /\ rx = NoRecv
    /\ expr = NoExpr
    /\ build = NoCall
    /\ bib = NoCall
    /\ sysclock = NoCall
    /\ mem = NoCall
    /\ locks = NoCall
    /\ send = NoSend
    /\ store = <<>>
    /\ cbuf = cbuf_create(1)
    /\ cb_op = "create"
    /\ cb_ret = BP_SUCCESS
    /\ cb_out = NoBundle
    /\ reuse = [done |-> "off", k |-> 0]

\* v6_receive_bundle is called with a received bundle
V6Receive(in, clock) ==
    /\ ~rx.done
    /\ LET r == v6_receive_bundle(bundle, in, clock)
       IN  /\ rx' = [done |-> TRUE, in |-> in, clock |-> clock,
                     ret |-> r.status, flags |-> r.flags,
                     branch |-> r.branch, exprtime |-> r.exprtime,
                     payload |-> r.payload, written |-> r.written,
                     rebuilt |-> r.rebuilt, pri_blk |-> r.pri_blk,
                     cteb_present |-> r.cteb_present, ei |-> r.ei,
                     exclude |-> r.exclude, header |-> r.header]
           /\ bundle' = recv_bundle(bundle, r)
    /\ UNCHANGED <<cbuf_vars, send, store, reuse, expr, lib_vars>>

\* bundles with up to one block before the payload arrive at any time of any
\* clock; longer ones arrive unexpired at a reliable clock; the first payload
\* byte is looked at in administrative records only
RecvStep ==
    /\ ~rx.done
    /\ \E pri \in InPris, blocks \in InBlockSeqs, pay \in InPays,
          clock \in Clocks :
          /\ ~pri.is_admin_rec => pay.rec_type = "other"
          /\ \/ Len(blocks) <= 1
             \/ /\ Len(blocks) > 1
                /\ clock.reliable
                /\ ~bundle.ignore_expiration
                /\ pri.createsec \in {SysNow - 2, BP_MAX_ENCODED_VALUE - 1}
          /\ V6Receive(Input(pri, blocks, pay), clock)

SpecRecv == RecvInit /\ [][RecvStep]_vars

(***************************************************************************)
(* v6_receive_bundle on a channel that may check integrity: long chains of *)
(* blocks, and bundles for another node                                    *)
(***************************************************************************)

\* the blocks of a chain: a BIB, an unrecognized block to drop, one to keep
ChainBlocks ==
    {InBlock("BIB", TRUE, TRUE, {}), InBlock("EXT", TRUE, TRUE, {"DROP"}),
     InBlock("EXT", TRUE, TRUE, {})}

\* a channel is created with or without the integrity-check attribute
ScanInit ==
    /\ \E ic \in BOOLEAN :
          bundle = v6_build([v6_create(60, TRUE, 3)
                               EXCEPT !.integrity_check = ic],
                            NoPri, v6_build_hdr(FALSE, ic, 0).payoffset)
    /\ rx = NoRecv
    /\ expr = NoExpr
    /\ build = NoCall
    /\ bib = NoCall
    /\ sysclock = NoCall
    /\ mem = NoCall
    /\ locks = NoCall
    /\ send = NoSend
    /\ store = <<>>
    /\ cbuf = cbuf_create(1)
    /\ cb_op = "create"
    /\ cb_ret = BP_SUCCESS
    /\ cb_out = NoBundle
    /\ reuse = [done |-> "off", k |-> 0]

\* an unexpired bundle with a chain of blocks is received on a channel that
\* does not check integrity
ScanChain ==
    /\ ~rx.done
    /\ ~bundle.integrity_check
    /\ \E n \in 0 .. MaxChain, dst \in {<<OtherNode, LocalServ>>,
                                        <<LocalNode, LocalServ>>} :
          \E blocks \in [1 .. n -> ChainBlocks] :
             V6Receive(Input(InPri("ok", 0, SysNow - 2, dst, FALSE, FALSE),
                             blocks, InPay(TRUE, TRUE, 2, "other")),
                       [reliable |-> TRUE, sysnow |-> SysNow])

\* an unexpired bundle for another node is received
ScanForward ==
    /\ ~rx.done
    /\ \E cs \in {SysNow - 2, BP_MAX_ENCODED_VALUE - 1}, cst \in BOOLEAN,
          blocks \in InBlockSeqs :
          V6Receive(Input(InPri("ok", 0, cs, <<OtherNode, LocalServ>>,
                                FALSE, cst),
                          blocks, InPay(TRUE, TRUE, 2, "other")),
                    [reliable |-> TRUE, sysnow |-> SysNow])

ScanStep ==
    \/ ScanChain
    \/ ScanForward

SpecScan == ScanInit /\ [][ScanStep]_vars

(***************************************************************************)
(* The calls on the table                                                  *)
(***************************************************************************)

\* a table of capacity 1..MaxCap is created; no bundle is being sent
CbufInit ==
    /\ \E size \in 1 .. MaxCap : cbuf = cbuf_create(size)
    /\ cb_op = "create"
    /\ cb_ret = BP_SUCCESS
    /\ cb_out = NoBundle
    /\ bundle = v6_create(0, FALSE, 0)
    /\ send = NoSend
    /\ store = <<>>
    /\ reuse = [done |-> "off", k |-> 0]
    /\ rx = NoRecv
    /\ expr = NoExpr
    /\ build = NoCall
    /\ bib = NoCall
    /\ sysclock = NoCall
    /\ mem = NoCall
    /\ locks = NoCall

CbufAddCall(b, overwrite) ==
    /\ cb_op' = "add"
    /\ LET r == cbuf_add(cbuf, b, overwrite)
       IN  /\ cbuf' = r.cbuf
           /\ cb_ret' = r.status
    /\ cb_out' = NoBundle
    /\ UNCHANGED <<send_vars, recv_vars, lib_vars>>

CbufNextCall ==
    /\ cb_op' = "next"
    /\ LET r == cbuf_next(cbuf)
       IN  /\ cbuf' = r.cbuf
           /\ cb_ret' = r.status
           /\ cb_out' = r.bundle
    /\ UNCHANGED <<send_vars, recv_vars, lib_vars>>

CbufRemoveCall(cid) ==
    /\ cb_op' = "remove"
    /\ LET r == cbuf_remove(cbuf, cid)
       IN  /\ cbuf' = r.cbuf
           /\ cb_ret' = r.status
           /\ cb_out' = r.bundle
    /\ UNCHANGED <<send_vars, recv_vars, lib_vars>>

CbufAvailableCall(cid) ==
    /\ cb_op' = "available"
    /\ cb_ret' = cbuf_available(cbuf, cid)
    /\ cb_out' = NoBundle
    /\ UNCHANGED cbuf
    /\ UNCHANGED <<send_vars, recv_vars, lib_vars>>

CbufCountCall ==
    /\ cb_op' = "count"
    /\ cb_ret' = cbuf_count(cbuf)
    /\ cb_out' = NoBundle
    /\ UNCHANGED cbuf
    /\ UNCHANGED <<send_vars, recv_vars, lib_vars>>

\* the calls, made in any order
CbufAdd(b, overwrite) ==
    /\ cbuf.num_entries < MaxCount
    /\ CbufAddCall(b, overwrite)
    /\ UNCHANGED reuse

CbufNext == CbufNextCall /\ UNCHANGED reuse

CbufRemove(cid) == CbufRemoveCall(cid) /\ UNCHANGED reuse

CbufAvailable(cid) == CbufAvailableCall(cid) /\ UNCHANGED reuse

CbufCount == CbufCountCall /\ UNCHANGED reuse

CbufStep ==
    \/ \E b \in Bundles, ow \in BOOLEAN : CbufAdd(b, ow)
    \/ CbufNext
    \/ \E cid \in Cids : CbufRemove(cid)
    \/ \E cid \in Cids : CbufAvailable(cid)
    \/ CbufCount

SpecCbuf == CbufInit /\ [][CbufStep]_vars

SpecSend == SendInit /\ [][SendStep]_vars

(***************************************************************************)
(* The slot-reuse scenario: a table of capacity N is filled with the CIDs  *)
(* 0..N-1 in order, CID k is removed, CID k+N (below the wrap of bp_val_t)  *)
(* is added after a look at cbuf_available, the count is read, cbuf_next   *)
(* is called, CID 0 is removed and cbuf_next is called again.              *)
(***************************************************************************)

\* storage ids of the records of the scenario
ReuseSids == {1, 2}

ReuseInit ==
    /\ \E size \in 1 .. ReuseCap : cbuf = cbuf_create(size)
    /\ cb_op = "create"
    /\ cb_ret = BP_SUCCESS
    /\ cb_out = NoBundle
    /\ bundle = v6_create(0, FALSE, 0)
    /\ send = NoSend
    /\ store = <<>>
    /\ reuse = [done |-> "create", k |-> 0]
    /\ rx = NoRecv
    /\ expr = NoExpr
    /\ build = NoCall
    /\ bib = NoCall
    /\ sysclock = NoCall
    /\ mem = NoCall
    /\ locks = NoCall

ReuseFill ==
    /\ reuse.done \in {"create", "fill"}
    /\ cbuf.num_entries < cbuf.size
    /\ \E sid \in ReuseSids :
          CbufAddCall(ActiveBundle(sid, 0, cbuf.num_entries), FALSE)
    /\ reuse' = [reuse EXCEPT !.done = "fill"]

ReuseRemoveK(k) ==
    /\ reuse.done = "fill"
    /\ cbuf.num_entries = cbuf.size
    /\ k + cbuf.size + 1 < ValMod
    /\ CbufRemoveCall(k)
    /\ reuse' = [done |-> "remove_k", k |-> k]

ReuseAvailable ==
    /\ reuse.done = "remove_k"
    /\ CbufAvailableCall(reuse.k + cbuf.size)
    /\ reuse' = [reuse EXCEPT !.done = "available"]

ReuseAddKN ==
    /\ reuse.done = "available"
    /\ \E sid \in ReuseSids :
          CbufAddCall(ActiveBundle(sid, 0, reuse.k + cbuf.size), FALSE)
    /\ reuse' = [reuse EXCEPT !.done = "add_kn"]

ReuseCount ==
    /\ reuse.done = "add_kn"
    /\ CbufCountCall
    /\ reuse' = [reuse EXCEPT !.done = "count"]

ReuseNext1 ==
    /\ reuse.done = "count"
    /\ CbufNextCall
    /\ reuse' = [reuse EXCEPT !.done = "next1"]

ReuseRemove0 ==
    /\ reuse.done = "next1"
    /\ CbufRemoveCall(0)
    /\ reuse' = [reuse EXCEPT !.done = "remove_0"]

ReuseNext2 ==
    /\ reuse.done = "remove_0"
    /\ CbufNextCall
    /\ reuse' = [reuse EXCEPT !.done = "next2"]

ReuseStep ==
    \/ ReuseFill
    \/ \E k \in 0 .. (cbuf.size - 1) : ReuseRemoveK(k)
    \/ ReuseAvailable
    \/ ReuseAddKN
    \/ ReuseCount
    \/ ReuseNext1
    \/ ReuseRemove0
    \/ ReuseNext2

SpecReuse == ReuseInit /\ [][ReuseStep]_vars

(***************************************************************************)
(* Properties of the active-bundle table                                   *)
(***************************************************************************)

NonVacant(c) == {i \in DOMAIN c.table : c.table[i].sid # BP_SID_VACANT}

\* C1: num_entries (what cbuf_count returns) equals the number of slots whose
\* storage id is not VACANT, after any sequence of add, remove and next.
C1_CountIsNonVacant == cbuf.num_entries = Cardinality(NonVacant(cbuf))

\* C2: every non-vacant slot at index i holds a record whose cid mod capacity
\* is i.
C2_SlotIndex == \A i \in NonVacant(cbuf) : cbuf.table[i].cid % cbuf.size = i

C2_Witness ==
    \E i \in NonVacant(cbuf) : cbuf.table[i].cid >= cbuf.size /\ cbuf.size > 1

\* C3 as stated: oldest_cid <= newest_cid in every reachable state.
C3_OldestLeNewest == cbuf.oldest_cid <= cbuf.newest_cid

\* C3 amended: every call that does not lower newest_cid keeps
\* oldest_cid <= newest_cid; cbuf_next never walks oldest_cid past newest_cid.
C3_OldestLeNewestKept ==
    [][(cbuf.oldest_cid <= cbuf.newest_cid /\ cbuf.newest_cid' >= cbuf.newest_cid)
          => cbuf.oldest_cid' <= cbuf.newest_cid']_vars

C3_Witness ==
    /\ cb_op = "next"
    /\ cbuf.oldest_cid > 0
    /\ cbuf.oldest_cid <= cbuf.newest_cid

\* C4: an add with overwrite=false of a CID that the non-vacant record in slot
\* cid mod capacity already holds returns DUPLICATE and changes nothing in the
\* table (slots, num_entries, oldest_cid, newest_cid).
C4_DuplicateKeepsTable ==
    [][(cb_op' = "add")
          => \A b \in Bundles :
                (/\ cbuf.table[b.cid % cbuf.size].sid # BP_SID_VACANT
                 /\ cbuf.table[b.cid % cbuf.size].cid = b.cid
                 /\ CbufAdd(b, FALSE))
                => (cb_ret' = BP_DUPLICATE /\ cbuf' = cbuf)]_vars

C4_Witness ==
    /\ cb_op = "add"
    /\ cb_ret = BP_DUPLICATE
    /\ cbuf.num_entries = Cardinality(NonVacant(cbuf))

\* the records in the table
Resident(c) == {c.table[i] : i \in NonVacant(c)}

\* C5 as stated: cbuf_next returns TIMEOUT only when the table holds no
\* non-vacant record, and a record of the table, which stays in the table,
\* whenever there is one.
C5_NextTimeoutIffEmpty ==
    [][cb_op' = "next"
          => /\ (cb_ret' = BP_TIMEOUT) <=> (NonVacant(cbuf) = {})
             /\ (NonVacant(cbuf) # {})
                   => (/\ cb_ret' = BP_SUCCESS
                       /\ cb_out' \in Resident(cbuf)
                       /\ cbuf'.table = cbuf.table)]_vars

\* the records whose CID lies in the window oldest_cid <= cid < newest_cid
InWindow(c) ==
    {r \in Resident(c) : c.oldest_cid <= r.cid /\ r.cid < c.newest_cid}

\* C5 amended: cbuf_next returns TIMEOUT whenever the table is empty, and a
\* record of the table, which stays in the table, whenever some record's CID
\* lies in the window oldest_cid <= cid < newest_cid.
C5_NextFindsWindow ==
    [][cb_op' = "next"
          => /\ (NonVacant(cbuf) = {}) => (cb_ret' = BP_TIMEOUT)
             /\ (InWindow(cbuf) # {})
                   => (/\ cb_ret' = BP_SUCCESS
                       /\ cb_out' \in Resident(cbuf)
                       /\ cbuf'.table = cbuf.table
                       /\ cbuf'.num_entries = cbuf.num_entries)]_vars

C5_Witness ==
    /\ cb_op = "next"
    /\ cb_ret = BP_SUCCESS
    /\ cb_out \in InWindow(cbuf)
    /\ cbuf.oldest_cid > 0

\* C6 as stated, first part: oldest_cid never decreases.
C6_OldestNeverDecreases == [][cbuf.oldest_cid' >= cbuf.oldest_cid]_vars

\* C6 amended: only cbuf_next changes oldest_cid; it changes neither the
\* slots, num_entries nor newest_cid; and while oldest_cid <= newest_cid it
\* moves oldest_cid forward only, never past newest_cid.
C6_OnlyNextMovesOldest ==
    [][/\ (cb_op' # "next") => (cbuf.oldest_cid' = cbuf.oldest_cid)
       /\ (cb_op' = "next")
             => (/\ cbuf'.table = cbuf.table
                 /\ cbuf'.num_entries = cbuf.num_entries
                 /\ cbuf'.newest_cid = cbuf.newest_cid
                 /\ cbuf'.size = cbuf.size
                 /\ (cbuf.oldest_cid <= cbuf.newest_cid)
                       => (cbuf.oldest_cid' >= cbuf.oldest_cid))]_vars

C6_Witness ==
    /\ cb_op = "next"
    /\ cbuf.oldest_cid > 1
    /\ NonVacant(cbuf) # {}

\* C7: cbuf_remove(cid) succeeds exactly when slot cid mod capacity is
\* non-vacant and holds that CID; it then returns the record, marks only that
\* slot vacant and decrements num_entries; otherwise it returns an error and
\* leaves the table as it was.
C7_RemoveExact ==
    [][(cb_op' = "remove")
          => \A cid \in Cids :
                CbufRemove(cid)
                => LET i   == cid % cbuf.size
                       hit == /\ cbuf.table[i].sid # BP_SID_VACANT
                              /\ cbuf.table[i].cid = cid
                   IN  IF hit
                       THEN /\ cb_ret' = BP_SUCCESS
                            /\ cb_out' = cbuf.table[i]
                            /\ cbuf'.table[i].sid = BP_SID_VACANT
                            /\ \A j \in DOMAIN cbuf.table :
                                  j # i => cbuf'.table[j] = cbuf.table[j]
                            /\ cbuf'.num_entries = cbuf.num_entries - 1
                            /\ cbuf'.oldest_cid = cbuf.oldest_cid
                            /\ cbuf'.newest_cid = cbuf.newest_cid
                       ELSE /\ cb_ret' = BP_ERROR
                            /\ cbuf' = cbuf]_vars

C7_Witness ==
    /\ cb_op = "remove"
    /\ cb_ret = BP_SUCCESS
    /\ cb_out.cid >= cbuf.size
    /\ NonVacant(cbuf) # {}

\* C8 as stated: for every k in 0..N-1, adding CID k+N after the removal of
\* CID k succeeds, the count is N again, cbuf_next returns CID 0 and, after
\* the removal of CID 0, CID 1.
C8_SlotReuseAnyK ==
    /\ (reuse.done = "add_kn") => (cb_ret = BP_SUCCESS)
    /\ (reuse.done = "count") => (cb_ret = cbuf.size)
    /\ (reuse.done = "next1") => (cb_ret = BP_SUCCESS /\ cb_out.cid = 0)
    /\ (reuse.done = "next2") => (cb_ret = BP_SUCCESS /\ cb_out.cid = 1)

\* C8 amended: the same for 2 <= k <= N-1, the CIDs 0 and 1 being then still
\* in the table (the case N = 8, k = 3 is one of these).
C8_SlotReuse ==
    (reuse.k >= 2)
        => /\ (reuse.done = "available") => (cb_ret = BP_SUCCESS)
           /\ (reuse.done = "add_kn") => (cb_ret = BP_SUCCESS)
           /\ (reuse.done = "count") => (cb_ret = cbuf.size)
           /\ (reuse.done = "next1")
                => (cb_ret = BP_SUCCESS /\ cb_out.cid = 0)
           /\ (reuse.done = "remove_0") => (cb_ret = BP_SUCCESS)
           /\ (reuse.done = "next2")
                => (cb_ret = BP_SUCCESS /\ cb_out.cid = 1)

C8_Witness ==
    /\ reuse.done = "next2"
    /\ reuse.k >= 2
    /\ cbuf.size >= 3
    /\ cb_out.cid = 1
    /\ cbuf.table[reuse.k].cid = reuse.k + cbuf.size
    /\ cbuf.table[reuse.k].sid # BP_SID_VACANT

(***************************************************************************)
(* Properties of v6_send_bundle                                            *)
(***************************************************************************)

\* C9 as stated: whenever max_paysize = max_length - headersize is <= 0, the
\* send has failed with BUNDLE_TOO_LARGE and nothing was handed to storage,
\* whatever the payload size and the allow-fragmentation setting.
C9_NoRoomFails ==
    (send.started /\ send.max_paysize <= 0)
        => (/\ send.pc = "idle"
            /\ send.ret = BP_ERROR
            /\ "BUNDLE_TOO_LARGE" \in send.flags
            /\ store = <<>>)

\* C10: a send of a payload larger than max_paysize with fragmentation not
\* allowed fails with BUNDLE_TOO_LARGE before the storage collaborator is
\* called, and the creation sequence stays as it was.
C10_NoFragmentFails ==
    [][\A size \in 0 .. MaxPay, reliable \in BOOLEAN :
          (/\ size > bundle.max_length - bundle.headersize
           /\ ~bundle.allow_fragmentation
           /\ V6SendBegin(size, reliable))
          => (/\ send'.pc = "idle"
              /\ send'.ret = BP_ERROR
              /\ "BUNDLE_TOO_LARGE" \in send'.flags
              /\ store' = <<>>
              /\ bundle'.createseq = bundle.createseq)]_vars

C10_Witness ==
    /\ send.started
    /\ send.pc = "idle"
    /\ send.size > send.max_paysize
    /\ send.max_paysize > 0
    /\ ~bundle.allow_fragmentation
    /\ send.ret = BP_ERROR
    /\ "BUNDLE_TOO_LARGE" \in send.flags
    /\ bundle.prebuilt
    /\ bundle.createseq > 0

\* the send in progress, or made last, took the fragment branch of the check
\* with room for at least one payload byte in a bundle
FragmentedSend ==
    /\ send.started
    /\ send.size > send.max_paysize
    /\ send.max_paysize >= 1
    /\ bundle.allow_fragmentation

\* the send made last returned BP_SUCCESS
SendSucceeded == send.started /\ send.pc = "idle" /\ send.ret = BP_SUCCESS

\* C11: in a fragmented send with max_paysize >= 1 the k-th fragment handed
\* to storage (k from 0) starts at payload byte k * max_paysize, has
\* min(max_paysize, S - k * max_paysize) bytes, and its header carries that
\* offset as fragoffset and S as paylen; a send that stored every fragment
\* made ceil(S / max_paysize) calls, the last one ending at byte S.
C11_FragmentsCoverPayload ==
    FragmentedSend
        => /\ \A k \in 1 .. Len(store) :
                /\ store[k].offset = (k - 1) * send.max_paysize
                /\ store[k].size =
                       (IF send.max_paysize < send.size - store[k].offset
                        THEN send.max_paysize
                        ELSE send.size - store[k].offset)
                /\ store[k].size >= 1
                /\ store[k].fragoffset = store[k].offset
                /\ store[k].paylen = send.size
           /\ SendSucceeded
                => /\ Len(store) =
                        (send.size + send.max_paysize - 1) \div send.max_paysize
                   /\ store[Len(store)].offset + store[Len(store)].size
                        = send.size

C11_Witness ==
    /\ FragmentedSend
    /\ SendSucceeded
    /\ Len(store) = 2
    /\ store[2].size < store[1].size
    /\ store[2].fragoffset = 2

\* C12 as stated: in a fragmented send the header of every fragment handed to
\* storage has the is-fragment flag of the primary block set.
C12_FragmentFlagInHeader ==
    (send.started /\ send.size > send.max_paysize /\ bundle.allow_fragmentation)
        => \A k \in 1 .. Len(store) : store[k].is_frag

\* C13: when the storage collaborator answers a fragment with a status other
\* than success, the send returns an error with STORE_FAILURE set, the
\* fragment that failed is the last one handed to storage, and the creation
\* sequence is the one the send started with.
C13_StoreFailureAborts ==
    /\ [][\A status \in {BP_SUCCESS, BP_ERROR} :
             (status # BP_SUCCESS /\ V6SendFragment(status))
             => (/\ send'.pc = "idle"
                 /\ send'.ret = BP_ERROR
                 /\ "STORE_FAILURE" \in send'.flags
                 /\ Len(store') = Len(store) + 1
                 /\ bundle'.createseq = bundle.createseq)]_vars
    /\ []( ("STORE_FAILURE" \in send.flags)
             => (/\ send.pc = "idle"
                 /\ send.ret = BP_ERROR
                 /\ Len(store) >= 1
                 /\ store[Len(store)].offset = send.payload_offset
                 /\ bundle.createseq = send.createseq0) )

C13_Witness ==
    /\ "STORE_FAILURE" \in send.flags
    /\ Len(store) = 2
    /\ send.size = 3
    /\ bundle.prebuilt
    /\ bundle.createseq > 0

\* C14: a send on a prebuilt bundle that stored every fragment leaves
\* createseq one higher modulo 2^14 than it found it, a send that failed and
\* every send on a bundle that is not prebuilt leave it as it was, and the
\* headers of all fragments of one send carry the same createseq.
C14_CreateSeqPerSend ==
    /\ bundle.createseq >= 0
    /\ bundle.prebuilt => bundle.createseq < CreateSeqMod
    /\ \A k \in 1 .. Len(store) : store[k].createseq = store[1].createseq
    /\ (bundle.prebuilt /\ Len(store) >= 1)
          => store[1].createseq = send.createseq0
    /\ send.started
          => bundle.createseq =
                (IF bundle.prebuilt /\ SendSucceeded
                 THEN (send.createseq0 + 1) % CreateSeqMod
                 ELSE send.createseq0)

C14_Witness ==
    /\ SendSucceeded
    /\ bundle.prebuilt
    /\ send.createseq0 = CreateSeqMod - 1
    /\ bundle.createseq = 0
    /\ Len(store) >= 2
    /\ store[2].createseq = CreateSeqMod - 1

\* C15: a send on a prebuilt bundle that passes the fragmentation check while
\* the clock is unreliable flags UNRELIABLE_TIME, sets createsec and the
\* expiration time to UNKNOWN_CREATION_TIME, writes the best-effort lifetime
\* into the header and goes on to the fragment loop; its fragments are the
\* ones a reliable clock would give, and it returns success unless storage
\* fails.
C15_UnreliableTimeSends ==
    /\ [][\A size \in 0 .. MaxPay :
             (/\ bundle.prebuilt
              /\ send_check(bundle, size) # "too_large"
              /\ V6SendBegin(size, FALSE))
             => (/\ "UNRELIABLE_TIME" \in send'.flags
                 /\ send'.pc = "loop"
                 /\ bundle'.createsec = BP_UNKNOWN_CREATION_TIME
                 /\ bundle'.hdr_createsec = BP_UNKNOWN_CREATION_TIME
                 /\ bundle'.hdr_lifetime = BP_BEST_EFFORT_LIFETIME
                 /\ bundle'.exprtime = BP_UNKNOWN_CREATION_TIME)]_vars
    /\ []( ("UNRELIABLE_TIME" \in send.flags)
             => (/\ \A k \in 1 .. Len(store) :
                       /\ store[k].createsec = BP_UNKNOWN_CREATION_TIME
                       /\ store[k].lifetime = BP_BEST_EFFORT_LIFETIME
                 /\ (send.max_paysize >= 1)
                       => \A k \in 1 .. Len(store) :
                             /\ store[k].offset = (k - 1) * send.max_paysize
                             /\ store[k].offset + store[k].size <= send.size
                 /\ (send.pc = "idle" /\ "STORE_FAILURE" \notin send.flags)
                       => (/\ send.ret = BP_SUCCESS
                           /\ (send.max_paysize >= 1 /\ send.size > 0)
                                 => store[Len(store)].offset
                                      + store[Len(store)].size = send.size)) )

C15_Witness ==
    /\ SendSucceeded
    /\ "UNRELIABLE_TIME" \in send.flags
    /\ bundle.exprtime = BP_UNKNOWN_CREATION_TIME
    /\ Len(store) >= 2
    /\ store[2].lifetime = BP_BEST_EFFORT_LIFETIME


\* C16: for every creation time and lifetime the send path and the receive
\* path compute the same expiration time and the same SDNV_OVERFLOW flag: the
\* sentinel for the creation times TTL and UNKNOWN, else createsec + lifetime,
\* or MAX_ENCODED_VALUE with SDNV_OVERFLOW when the sum wraps.
C16_SameExprTime ==
    (expr.sent /\ expr.received)
        => /\ expr.send_result = expr.recv_result
           /\ expr.recv_result =
                (IF expr.createsec \in {BP_TTL_CREATION_TIME,
                                        BP_UNKNOWN_CREATION_TIME}
                 THEN [exprtime |-> expr.createsec, overflow |-> FALSE]
                 ELSE IF expr.createsec + expr.lifetime >= TimeMod
                      THEN [exprtime |-> BP_MAX_ENCODED_VALUE,
                            overflow |-> TRUE]
                      ELSE [exprtime |-> expr.createsec + expr.lifetime,
                            overflow |-> FALSE])

C16_Witness ==
    /\ expr.sent
    /\ expr.received
    /\ expr.recv_result.overflow
    /\ expr.send_result.exprtime = BP_MAX_ENCODED_VALUE
    /\ expr.createsec < BP_MAX_ENCODED_VALUE


(***************************************************************************)
(* Properties of v6_receive_bundle                                         *)
(***************************************************************************)

\* the primary block of the received bundle was parsed and is supported
PriAccepted == rx.done /\ rx.in.pri.parse = "ok" /\ rx.in.pri.dictlen = 0

\* the expiration time of the received bundle
InExprTime ==
    IF rx.in.pri.createsec \in {BP_TTL_CREATION_TIME, BP_UNKNOWN_CREATION_TIME}
    THEN rx.in.pri.createsec
    ELSE IF rx.in.pri.createsec + rx.in.pri.lifetime >= TimeMod
         THEN BP_MAX_ENCODED_VALUE
         ELSE rx.in.pri.createsec + rx.in.pri.lifetime

\* C17: for a bundle whose primary block is parsed and supported,
\* v6_receive_bundle returns PENDING_EXPIRATION exactly when the clock is
\* reliable, the channel does not ignore expiration, the expiration time is
\* neither the TTL nor the UNKNOWN sentinel and the clock reads that time or
\* a later one; it then has written neither to the input buffer, the
\* caller's payload structure nor the bundle structure.
C17_ExpirationDecision ==
    /\ [](PriAccepted
            => /\ (rx.ret = BP_PENDING_EXPIRATION)
                    <=> (/\ rx.clock.reliable
                         /\ ~bundle.ignore_expiration
                         /\ InExprTime # BP_TTL_CREATION_TIME
                         /\ InExprTime # BP_UNKNOWN_CREATION_TIME
                         /\ rx.clock.sysnow >= InExprTime)
               /\ (rx.ret = BP_PENDING_EXPIRATION)
                    => (/\ rx.written = {}
                        /\ ~rx.rebuilt
                        /\ ~rx.payload.set))
    /\ [][(rx'.done /\ rx'.ret = BP_PENDING_EXPIRATION)
             => bundle' = bundle]_vars

C17_Witness ==
    /\ PriAccepted
    /\ rx.ret = BP_PENDING_EXPIRATION
    /\ rx.clock.sysnow = InExprTime
    /\ Len(rx.in.blocks) = 1
    /\ rx.in.pay.present

\* the received bundle has a payload block and all its blocks parse, an
\* administrative record having its two bytes
WellFormed ==
    /\ PriAccepted
    /\ \A i \in 1 .. Len(rx.in.blocks) : rx.in.blocks[i].ok
    /\ rx.in.pay.present
    /\ rx.in.pay.ok
    /\ rx.in.pri.is_admin_rec => rx.in.pay.paysize >= 2

HasBlock(type) ==
    \E i \in 1 .. Len(rx.in.blocks) : rx.in.blocks[i].type = type

HasDelete ==
    \E i \in 1 .. Len(rx.in.blocks) :
        /\ rx.in.blocks[i].type = "EXT"
        /\ "DELETE" \in rx.in.blocks[i].flags

\* C18 as stated (no block of the bundle asking for its deletion): a
\* well-formed, unexpired bundle that passes the integrity check and carries
\* a CTEB if it requests custody is forwarded when its destination node is
\* not the local node, else refused with ROUTE_NEEDED when its destination
\* service is neither 0 nor the local service, else taken as an
\* administrative record (ACS: PENDING_ACKNOWLEDGMENT, CS and STATUS:
\* NONCOMPLIANT, other: UNKNOWNREC), else accepted.
C18_FirstMatchingRule ==
    (/\ WellFormed
     /\ rx.ret # BP_PENDING_EXPIRATION
     /\ \A i \in 1 .. Len(rx.in.blocks) : rx.in.blocks[i].crc_ok
     /\ rx.in.pri.cst_rqst => HasBlock("CTEB")
     /\ ~HasDelete)
        => IF rx.in.pri.dstnode # bundle.local_node
           THEN rx.ret = BP_PENDING_FORWARD
           ELSE IF /\ rx.in.pri.dstserv # 0
                   /\ rx.in.pri.dstserv # bundle.local_service
                THEN rx.ret = BP_ERROR /\ "ROUTE_NEEDED" \in rx.flags
                ELSE IF rx.in.pri.is_admin_rec
                     THEN IF rx.in.pay.rec_type = BP_ACS_REC_TYPE
                          THEN rx.ret = BP_PENDING_ACKNOWLEDGMENT
                          ELSE IF rx.in.pay.rec_type
                                    \in {BP_CS_REC_TYPE, BP_STAT_REC_TYPE}
                               THEN /\ rx.ret = BP_ERROR
                                    /\ "NONCOMPLIANT" \in rx.flags
                               ELSE /\ rx.ret = BP_ERROR
                                    /\ "UNKNOWNREC" \in rx.flags
                     ELSE rx.ret = BP_PENDING_ACCEPTANCE

BuildInit ==
    /\ \E cst \in BOOLEAN, ic \in BOOLEAN, n \in 0 .. MaxHdrLen :
          build = [pc |-> "call", cst_rqst |-> cst, integrity_check |-> ic,
                   hdr_len |-> n]
    /\ bib = NoCall
    /\ sysclock = NoCall
    /\ mem = NoCall
    /\ locks = NoCall
    /\ rx = NoRecv
    /\ expr = NoExpr
    /\ bundle = v6_create(0, FALSE, 0)
    /\ send = NoSend
    /\ store = <<>>
    /\ cbuf = cbuf_create(1)
    /\ cb_op = "create"
    /\ cb_ret = BP_SUCCESS
    /\ cb_out = NoBundle
    /\ reuse = [done |-> "off", k |-> 0]

\* v6_build writes the header
BuildStep ==
    /\ build.pc = "call"
    /\ LET r == v6_build_hdr(build.cst_rqst, build.integrity_check,
                             build.hdr_len)
       IN  build' = [pc |-> "done", cst_rqst |-> build.cst_rqst,
                     integrity_check |-> build.integrity_check,
                     hdr_len |-> build.hdr_len, status |-> r.status,
                     flags |-> r.flags, payoffset |-> r.payoffset]
    /\ UNCHANGED <<cbuf_vars, send_vars, reuse, recv_vars, locks, bib, sysclock, mem>>

SpecBuild == BuildInit /\ [][BuildStep]_vars

(***************************************************************************)
(* v6/bib.c: the bundle integrity block                                    *)
(***************************************************************************)

BP_BIB_BLK_TYPE == 13

BP_PAY_BLK_TYPE == 1

BP_BIB_CRC16_X25 == 0

BP_BIB_CRC32_CASTAGNOLI == 1

BP_BIB_INTEGRITY_SIGNATURE == 5

BP_BLK_REPALL_MASK == 1

\* bytes of the block buffer: the BIB with a CRC-32C
BibBufLen == 17

\* the bits set in the w-bit number n, and the byte of eight bits
Bits(n, w) == {i \in 0 .. w - 1 : (n \div 2 ^ i) % 2 = 1}

ByteOf(bits) ==
    LET f[i \in 0 .. 8] ==
          IF i = 0 THEN 0
          ELSE f[i - 1] + (IF i - 1 \in bits THEN 2 ^ (i - 1) ELSE 0)
    IN  f[8]

\* a checksum that does not depend on the payload
bplib_crc_none(payload, w) == 0 .. w - 1

\* bplib_crc_get with BPLIB_CRC16_X25 (w = 16) or BPLIB_CRC32_CASTAGNOLI
\* (w = 32): the reflected CRC, initial and final value all ones, as the set
\* of its bits
bplib_crc_get(payload, w) ==
    LET ones == 0 .. w - 1
        poly == IF w = 16 THEN Bits(33800, 16)
                ELSE Bits(15224, 16) \cup {i + 16 : i \in Bits(33526, 16)}
        xor(a, b) == (a \ b) \cup (b \ a)
        step[k \in 0 .. 8 * Len(payload)] ==
            IF k = 0 THEN ones
            ELSE LET prev == step[k - 1]
                     c == IF (k - 1) % 8 = 0
                          THEN xor(prev, Bits(payload[(k - 1) \div 8 + 1], 8))
                          ELSE prev
                 IN  IF 0 \in c
                     THEN xor({i - 1 : i \in c \ {0}}, poly)
                     ELSE {i - 1 : i \in c}
    IN  xor(step[8 * Len(payload)], ones)

\* write_crc16, write_crc32: the CRC, big endian, into 2 or 4 bytes at index
write_crc(buf, index, crc, n) ==
    [i \in DOMAIN buf |->
        IF i >= index /\ i < index + n
        THEN ByteOf({b - 8 * (n - 1 - (i - index)) : b \in crc} \cap (0 .. 7))
        ELSE buf[i]]

\* a reader that takes the CRC little endian
read_crc_le(buf, index, n) ==
    UNION {{b + 8 * k : b \in Bits(buf[index + k], 8)} : k \in 0 .. n - 1}

\* read_crc16, read_crc32
read_crc(buf, index, n) ==
    UNION {{b + 8 * (n - 1 - k) : b \in Bits(buf[index + k], 8)} :
              k \in 0 .. n - 1}

\* sdnv_write of a field with a fixed width into a block of size bytes: the
\* value, seven bits a byte, right justified, every byte but the last with
\* its high bit set; SDNV_OVERFLOW when the value does not fit the width,
\* SDNV_INCOMPLETE when the field does not fit the block
sdnv_write(buf, size, fld) ==
    [buf   |-> [i \in DOMAIN buf |->
                  IF i >= fld.index /\ i < fld.index + fld.width /\ i < size
                  THEN ((fld.value \div 128 ^ (fld.index + fld.width - 1 - i))
                          % 128)
                       + (IF i < fld.index + fld.width - 1 THEN 128 ELSE 0)
                  ELSE buf[i]],
     flags |-> (IF fld.value >= 128 ^ fld.width
                THEN {"SDNV_OVERFLOW"} ELSE {})
               \cup (IF fld.index + fld.width > size
                     THEN {"SDNV_INCOMPLETE"} ELSE {}),
     next  |-> fld.index + fld.width]

\* sdnv_read of a field with a fixed width: exactly width bytes
sdnv_read(buf, size, fld) ==
    LET v[k \in 0 .. fld.width] ==
          IF k = 0 \/ fld.index + k - 1 >= size THEN 0
          ELSE v[k - 1] * 128 + (buf[fld.index + k - 1] % 128)
    IN  [fld   |-> [fld EXCEPT !.value = v[fld.width]],
         flags |-> IF fld.index + fld.width > size
                   THEN {"SDNV_INCOMPLETE"} ELSE {},
         next  |-> fld.index + fld.width]

\* a bp_field_t
Field(value, index, width) ==
    [value |-> value, index |-> index, width |-> width]

\* bundle_bib_blk: the canonical layout of the BIB
bundle_bib_blk ==
    [bf                     |-> Field(0, 1, 1),
     blklen                 |-> Field(0, 2, 4),
     security_target_count  |-> Field(1, 6, 1),
     security_target_type   |-> BP_PAY_BLK_TYPE,
     cipher_suite_id        |-> Field(0, 8, 1),
     cipher_suite_flags     |-> Field(0, 9, 1),
     compound_length        |-> Field(0, 10, 1),
     security_result_type   |-> BP_BIB_INTEGRITY_SIGNATURE,
     security_result_length |-> Field(0, 12, 1),
     crc                    |-> {}]

\* bib_write with update_indices false: the structure as the call leaves
\* it, the block, the flags raised, and the value returned as a status and
\* the number of bytes
bib_write(buffer, size, blk) ==
    LET fail(flag, b, buf) ==
            [ret |-> BP_ERROR, bytes |-> 0, blk |-> b, buffer |-> buf,
             flags |-> {flag}]
        crc16 == blk.cipher_suite_id.value = BP_BIB_CRC16_X25
        b1 == [blk EXCEPT
                 !.compound_length.value = IF crc16 THEN 4 ELSE 6,
                 !.security_result_length.value = IF crc16 THEN 2 ELSE 4,
                 !.bf.value = IF (@ \div BP_BLK_REPALL_MASK) % 2 = 0
                              THEN @ + BP_BLK_REPALL_MASK ELSE @]
        w1 == sdnv_write([buffer EXCEPT ![0] = BP_BIB_BLK_TYPE], size, b1.bf)
        w2 == sdnv_write(w1.buf, size, b1.blklen)
        w3 == sdnv_write(w2.buf, size, b1.security_target_count)
        w4 == sdnv_write([w3.buf EXCEPT ![w3.next] = b1.security_target_type],
                         size, b1.cipher_suite_id)
        w5 == sdnv_write(w4.buf, size, b1.cipher_suite_flags)
        w6 == sdnv_write(w5.buf, size, b1.compound_length)
        w7 == sdnv_write([w6.buf EXCEPT ![w6.next] = b1.security_result_type],
                         size, b1.security_result_length)
        n == IF crc16 THEN 2 ELSE 4
        bytes_written == w7.next + n
        b2 == [b1 EXCEPT !.blklen.value =
                            bytes_written - b1.security_target_count.index]
        w8 == sdnv_write(write_crc(w7.buf, w7.next, b1.crc, n), size,
                         b2.blklen)
        sdnvflags == w1.flags \cup w2.flags \cup w3.flags \cup w4.flags
                        \cup w5.flags \cup w6.flags \cup w7.flags
                        \cup w8.flags
    IN  IF size < 1 THEN fail("FAILED_TO_PARSE", blk, buffer)
        ELSE IF blk.security_target_type # BP_PAY_BLK_TYPE
        THEN fail("INVALID_BIB_TARGET_TYPE", blk, buffer)
        ELSE IF blk.security_result_type # BP_BIB_INTEGRITY_SIGNATURE
        THEN fail("INVALID_BIB_RESULT_TYPE", blk, buffer)
        ELSE IF blk.cipher_suite_id.value
                   \notin {BP_BIB_CRC16_X25, BP_BIB_CRC32_CASTAGNOLI}
        THEN fail("INVALID_CIPHER_SUITEID", blk, buffer)
        ELSE IF w3.next + 1 > size THEN fail("FAILED_TO_PARSE", b1, w3.buf)
        ELSE IF w6.next + 1 > size THEN fail("FAILED_TO_PARSE", b1, w6.buf)
        ELSE [ret    |-> IF sdnvflags # {} THEN BP_ERROR ELSE BP_SUCCESS,
              bytes  |-> IF sdnvflags # {} THEN 0 ELSE bytes_written,
              blk    |-> b2,
              buffer |-> w8.buf,
              flags  |-> sdnvflags]

\* bib_read with update_indices false, into a structure that holds the
\* canonical layout
bib_read(buffer, size, blk) ==
    LET fail(flag, b) ==
            [ret |-> BP_ERROR, bytes |-> 0, blk |-> b, flags |-> flag]
        r1 == sdnv_read(buffer, size, blk.bf)
        r2 == sdnv_read(buffer, size, blk.blklen)
        r3 == sdnv_read(buffer, size, blk.security_target_count)
        b1 == [blk EXCEPT !.bf = r1.fld, !.blklen = r2.fld,
                          !.security_target_count = r3.fld]
        r4 == sdnv_read(buffer, size, blk.cipher_suite_id)
        r5 == sdnv_read(buffer, size, blk.cipher_suite_flags)
        r6 == sdnv_read(buffer, size, blk.compound_length)
        b2 == [b1 EXCEPT !.security_target_type = buffer[r3.next],
                         !.cipher_suite_id = r4.fld,
                         !.cipher_suite_flags = r5.fld,
                         !.compound_length = r6.fld]
        r7 == sdnv_read(buffer, size, blk.security_result_length)
        b3 == [b2 EXCEPT !.security_result_type = buffer[r6.next],
                         !.security_result_length = r7.fld]
        n == IF b3.cipher_suite_id.value = BP_BIB_CRC16_X25 THEN 2 ELSE 4
        sdnvflags == r1.flags \cup r2.flags \cup r3.flags \cup r4.flags
                        \cup r5.flags \cup r6.flags \cup r7.flags
    IN  IF size < 1 THEN fail({"FAILED_TO_PARSE"}, blk)
        ELSE IF buffer[0] # BP_BIB_BLK_TYPE
        THEN fail({"FAILED_TO_PARSE"}, blk)
        ELSE IF r3.next + 1 > size THEN fail({"FAILED_TO_PARSE"}, b1)
        ELSE IF r6.next + 1 > size THEN fail({"FAILED_TO_PARSE"}, b2)
        ELSE IF b3.security_target_type # BP_PAY_BLK_TYPE
        THEN fail({"INVALID_BIB_TARGET_TYPE"}, b3)
        ELSE IF b3.security_result_type # BP_BIB_INTEGRITY_SIGNATURE
        THEN fail({"INVALID_BIB_RESULT_TYPE"}, b3)
        ELSE IF b3.cipher_suite_id.value
                   \notin {BP_BIB_CRC16_X25, BP_BIB_CRC32_CASTAGNOLI}
        THEN fail({"INVALID_CIPHER_SUITEID"}, b3)
        ELSE IF b3.security_result_length.value # n \/ r7.next + n > size
        THEN fail({"FAILED_TO_PARSE"}, b3)
        ELSE IF sdnvflags # {}
        THEN fail(sdnvflags \cup {"FAILED_TO_PARSE"},
                  [b3 EXCEPT !.crc = read_crc(buffer, r7.next, n)])
        ELSE [ret   |-> BP_SUCCESS,
              bytes |-> r7.next + n,
              blk   |-> [b3 EXCEPT !.crc = read_crc(buffer, r7.next, n)],
              flags |-> {}]

\* bib_verify: the CRC of the payload against the one the structure holds
bib_verify(payload, blk) ==
    IF blk.cipher_suite_id.value = BP_BIB_CRC16_X25
    THEN IF blk.crc # bplib_crc_get(payload, 16)
         THEN [ret |-> BP_ERROR, flags |-> {"FAILED_INTEGRITY_CHECK"}]
         ELSE [ret |-> BP_SUCCESS, flags |-> {}]
    ELSE IF blk.cipher_suite_id.value = BP_BIB_CRC32_CASTAGNOLI
    THEN IF blk.crc # bplib_crc_get(payload, 32)
         THEN [ret |-> BP_ERROR, flags |-> {"FAILED_INTEGRITY_CHECK"}]
         ELSE [ret |-> BP_SUCCESS, flags |-> {}]
    ELSE [ret |-> BP_ERROR, flags |-> {"INVALID_CIPHER_SUITEID"}]

\* bib_update: the CRC of the payload into the structure and into the block
bib_update(buffer, size, payload, blk) ==
    LET fld == blk.security_result_length
        room_needed == fld.index + fld.width + fld.value
        w == IF blk.cipher_suite_id.value = BP_BIB_CRC16_X25 THEN 16 ELSE 32
        crc == bplib_crc_get(payload, w)
    IN  IF size < room_needed
        THEN [ret |-> BP_ERROR, blk |-> blk, buffer |-> buffer,
              flags |-> {"FAILED_TO_PARSE"}]
        ELSE IF blk.cipher_suite_id.value
                   \in {BP_BIB_CRC16_X25, BP_BIB_CRC32_CASTAGNOLI}
        THEN [ret    |-> BP_SUCCESS,
              blk    |-> [blk EXCEPT !.crc = crc],
              buffer |-> write_crc(buffer, fld.index + fld.width, crc,
                                   w \div 8),
              flags  |-> {}]
        ELSE [ret |-> BP_ERROR, blk |-> blk, buffer |-> buffer,
              flags |-> {"INVALID_CIPHER_SUITEID"}]

\* the payloads the integrity block is computed over: two pairs that differ
\* in one bit
BibPayloads == {<<0>>, <<1>>, <<72, 105>>, <<72, 104>>}

\* the sizes of the block memory handed to the calls
BibSizes == {0, 7, BibBufLen}

\* a caller holds a BIB structure with the canonical layout and any values,
\* and a block of zeroes
BibInit ==
    /\ \E bf \in {0, 1, 4, 130}, len \in {0, 9}, cnt \in {1, 2},
          tt \in {BP_PAY_BLK_TYPE, 0},
          id \in {BP_BIB_CRC16_X25, BP_BIB_CRC32_CASTAGNOLI, 2},
          fl \in {0, 1}, cl \in {0, 4},
          rt \in {BP_BIB_INTEGRITY_SIGNATURE, 0}, rl \in {0, 2},
          crc \in {{}, {0, 9, 15}, {3, 31}} :
          /\ id = BP_BIB_CRC16_X25 => crc \subseteq 0 .. 15
          /\ bib = [pc      |-> "call",
                    blk     |-> [bundle_bib_blk EXCEPT
                                   !.bf.value = bf,
                                   !.blklen.value = len,
                                   !.security_target_count.value = cnt,
                                   !.security_target_type = tt,
                                   !.cipher_suite_id.value = id,
                                   !.cipher_suite_flags.value = fl,
                                   !.compound_length.value = cl,
                                   !.security_result_type = rt,
                                   !.security_result_length.value = rl,
                                   !.crc = crc],
                    arg     |-> bundle_bib_blk,
                    buffer  |-> [i \in 0 .. BibBufLen - 1 |-> 0],
                    size    |-> 0,
                    written |-> 0,
                    payload |-> <<>>,
                    verified |-> <<>>,
                    bytes   |-> 0,
                    ret     |-> BP_SUCCESS,
                    flags   |-> {}]
    /\ build = NoCall
    /\ sysclock = NoCall
    /\ mem = NoCall
    /\ locks = NoCall
    /\ rx = NoRecv
    /\ expr = NoExpr
    /\ bundle = v6_create(0, FALSE, 0)
    /\ send = NoSend
    /\ store = <<>>
    /\ cbuf = cbuf_create(1)
    /\ cb_op = "create"
    /\ cb_ret = BP_SUCCESS
    /\ cb_out = NoBundle
    /\ reuse = [done |-> "off", k |-> 0]

\* the caller writes the block
BibWrite ==
    /\ bib.pc = "call"
    /\ \E size \in BibSizes :
          LET w == bib_write(bib.buffer, size, bib.blk)
          IN  bib' = [bib EXCEPT
                        !.pc = IF w.ret = BP_ERROR THEN "failed"
                               ELSE "written",
                        !.arg = bib.blk, !.blk = w.blk,
                        !.buffer = w.buffer, !.size = size,
                        !.written = w.bytes,
                        !.ret = w.ret, !.flags = w.flags]

\* the sender stores the CRC of a payload in the block it wrote
BibUpdate ==
    /\ bib.pc = "written"
    /\ \E size \in BibSizes, payload \in BibPayloads :
          LET u == bib_update(bib.buffer, size, payload, bib.blk)
          IN  bib' = [bib EXCEPT
                        !.pc = IF u.ret = BP_ERROR THEN "failed"
                               ELSE "updated",
                        !.blk = u.blk, !.buffer = u.buffer,
                        !.size = size, !.payload = payload,
                        !.ret = u.ret, !.flags = u.flags]

\* a receiver reads the block into a structure with the canonical layout
BibRead ==
    /\ bib.pc \in {"written", "updated"}
    /\ \E size \in BibSizes :
          LET r == bib_read(bib.buffer, size, bundle_bib_blk)
          IN  bib' = [bib EXCEPT
                        !.pc = IF r.ret = BP_ERROR THEN "failed"
                               ELSE IF bib.pc = "written" THEN "read"
                               ELSE "received",
                        !.blk = r.blk, !.size = size, !.bytes = r.bytes,
                        !.ret = r.ret, !.flags = r.flags]

\* the payload is verified against the structure: the one that was updated,
\* or the one that was read from the updated block
BibVerify ==
    /\ bib.pc \in {"updated", "received"}
    /\ \E payload \in BibPayloads :
          LET v == bib_verify(payload, bib.blk)
          IN  bib' = [bib EXCEPT
                        !.pc = "verified", !.verified = payload,
                        !.ret = v.ret, !.flags = v.flags]

BibStep ==
    /\ \/ BibWrite
       \/ BibUpdate
       \/ BibRead
       \/ BibVerify
    /\ UNCHANGED <<cbuf_vars, send_vars, reuse, recv_vars, locks, build, sysclock,
                   mem>>

SpecBib == BibInit /\ [][BibStep]_vars

(***************************************************************************)
(* os/posix.c: the system time                                             *)
(***************************************************************************)

UNIX_SECS_AT_2000 == 946684800

\* unsigned long, modelled 30 bits wide
ULongBits == 30

\* the readings of CLOCK_REALTIME (tv_sec): around the first second of 2000
ClockReadings == UNIX_SECS_AT_2000 - 2 .. UNIX_SECS_AT_2000 + 4

\* bplib_os_systime with the reading now, prevnow being the reading of the
\* call before (of bplib_os_init before the first call)
bplib_os_systime(prevnow, now) ==
    LET elapsed_secs  == (now - UNIX_SECS_AT_2000) % 2 ^ ULongBits
        previous_secs == (prevnow - UNIX_SECS_AT_2000) % 2 ^ ULongBits
    IN  [status  |-> IF now < UNIX_SECS_AT_2000 \/ previous_secs > elapsed_secs
                     THEN BP_ERROR ELSE BP_SUCCESS,
         sysnow  |-> elapsed_secs,
         prevnow |-> now]

\* bplib_os_init has taken the first reading
ClockInit ==
    /\ \E t \in ClockReadings :
          sysclock = [pc |-> "init", prevnow |-> t, before |-> t, now |-> t,
                      status |-> BP_SUCCESS, sysnow |-> 0, calls |-> 0]
    /\ build = NoCall
    /\ bib = NoCall
    /\ mem = NoCall
    /\ locks = NoCall
    /\ rx = NoRecv
    /\ expr = NoExpr
    /\ bundle = v6_create(0, FALSE, 0)
    /\ send = NoSend
    /\ store = <<>>
    /\ cbuf = cbuf_create(1)
    /\ cb_op = "create"
    /\ cb_ret = BP_SUCCESS
    /\ cb_out = NoBundle
    /\ reuse = [done |-> "off", k |-> 0]

\* a call of bplib_os_systime; the clock reads anything
ClockStep ==
    /\ sysclock.calls < MaxCalls
    /\ \E t \in ClockReadings :
          LET r == bplib_os_systime(sysclock.prevnow, t)
          IN  sysclock' = [pc |-> "called", prevnow |-> r.prevnow,
                           before |-> sysclock.prevnow, now |-> t,
                           status |-> r.status, sysnow |-> r.sysnow,
                           calls |-> sysclock.calls + 1]
    /\ UNCHANGED <<cbuf_vars, send_vars, reuse, recv_vars, locks, build, bib, mem>>

SpecClock == ClockInit /\ [][ClockStep]_vars

(***************************************************************************)
(* os/posix.c: the allocator                                               *)
(***************************************************************************)

\* sizeof(size_t)
SizeofSizeT == 8

\* size_t, modelled 6 bits wide
SizeBits == 6

\* the threads that call the allocator
MemThreads == {1, 2}

\* current_memory_allocated and highest_memory_allocated are zero, nothing
\* is allocated and no thread is in a call; live is the number of bytes in
\* the blocks that calloc() has handed out and free() has not taken back
MemInit ==
    /\ mem = [pc      |-> "run",
              current |-> 0,
              highest |-> 0,
              live    |-> 0,
              calls   |-> 0,
              thr     |-> [t \in MemThreads |->
                             [pc |-> "idle", block_size |-> 0, reg |-> 0,
                              held |-> <<>>]]]
    /\ build = NoCall
    /\ bib = NoCall
    /\ sysclock = NoCall
    /\ locks = NoCall
    /\ rx = NoRecv
    /\ expr = NoExpr
    /\ bundle = v6_create(0, FALSE, 0)
    /\ send = NoSend
    /\ store = <<>>
    /\ cbuf = cbuf_create(1)
    /\ cb_op = "create"
    /\ cb_ret = BP_SUCCESS
    /\ cb_out = NoBundle
    /\ reuse = [done |-> "off", k |-> 0]

\* a thread enters bplib_os_calloc: calloc() hands out the block, or NULL
bplib_os_calloc(t) ==
    /\ mem.thr[t].pc = "idle"
    /\ mem.calls < MaxCalls
    /\ \E size \in {1, 2}, ok \in BOOLEAN :
          LET block_size == size + SizeofSizeT
          IN  mem' = IF ok
                     THEN [mem EXCEPT
                             !.calls = @ + 1,
                             !.live = @ + block_size,
                             !.thr[t].pc = "calloc_load",
                             !.thr[t].block_size = block_size,
                             !.thr[t].held = Append(@, block_size)]
                     ELSE [mem EXCEPT !.calls = @ + 1]

\* a thread enters bplib_os_free with a block it holds and reads its size
bplib_os_free(t) ==
    /\ mem.thr[t].pc = "idle"
    /\ mem.calls < MaxCalls
    /\ mem.thr[t].held # <<>>
    /\ mem' = [mem EXCEPT
                 !.calls = @ + 1,
                 !.thr[t].pc = "free_load",
                 !.thr[t].block_size = Head(mem.thr[t].held),
                 !.thr[t].held = Tail(@)]

\* no lock is held: the thread reads current_memory_allocated
MemLoad(t) ==
    /\ mem.thr[t].pc \in {"calloc_load", "free_load", "high_load"}
    /\ mem' = [mem EXCEPT
                 !.thr[t].reg = mem.current,
                 !.thr[t].pc =
                    IF @ = "calloc_load" THEN "calloc_store"
                    ELSE IF @ = "free_load" THEN "free_store"
                    ELSE IF mem.current > mem.highest THEN "high_store"
                    ELSE "idle"]

\* the thread writes the sum, or the difference and then free() takes the
\* block back
MemStore(t) ==
    \/ /\ mem.thr[t].pc = "calloc_store"
       /\ mem' = [mem EXCEPT
                    !.current = (mem.thr[t].reg + mem.thr[t].block_size)
                                   % 2 ^ SizeBits,
                    !.thr[t].pc = "high_load"]
    \/ /\ mem.thr[t].pc = "free_store"
       /\ mem' = [mem EXCEPT
                    !.current = (mem.thr[t].reg - mem.thr[t].block_size)
                                   % 2 ^ SizeBits,
                    !.live = @ - mem.thr[t].block_size,
                    !.thr[t].pc = "idle"]

\* the thread writes highest_memory_allocated: the value it compared, or
\* current_memory_allocated read again
MemHigh(t) ==
    /\ mem.thr[t].pc = "high_store"
    /\ \E v \in {mem.thr[t].reg, mem.current} :
          mem' = [mem EXCEPT !.highest = v, !.thr[t].pc = "idle"]

MemStep ==
    /\ \E t \in MemThreads :
          \/ bplib_os_calloc(t)
          \/ bplib_os_free(t)
          \/ MemLoad(t)
          \/ MemStore(t)
          \/ MemHigh(t)
    /\ UNCHANGED <<cbuf_vars, send_vars, reuse, recv_vars, locks, build, bib,
                   sysclock>>

SpecMem == MemInit /\ [][MemStep]_vars

(***************************************************************************)
(* The exclusion list and the forwarded header                             *)
(***************************************************************************)

\* the entries of the exclusion list in use when the scan of a bundle whose
\* blocks are all scanned comes to block k (k = Len + 1: the payload block)
UsedAt(k) ==
    2 + 2 * Cardinality({j \in 1 .. k - 1 :
                           \/ rx.in.blocks[j].type = "BIB"
                           \/ /\ rx.in.blocks[j].type = "EXT"
                              /\ "DROP" \in rx.in.blocks[j].flags})

\* the scan comes to every block of the bundle unless the list is full: the
\* bundle has not expired, its blocks parse and none asks for its deletion
AllScanned ==
    /\ WellFormed
    /\ rx.branch # "expired"
    /\ ~HasDelete
    /\ rx.branch # "parse"

\* C21: the exclusion list never holds more than its 16 entries, so no write
\* is at an index >= 16; and a bundle whose scan comes to a block (the
\* payload block included) with 14 or more entries in use is rejected there
\* with NONCOMPLIANT, before the block is looked at: the list holds what it
\* held, the caller's payload and the bundle structure are untouched.
C21_ExclusionListBound ==
    /\ [](rx.done
            => /\ rx.ei <= BP_NUM_EXCLUDE_REGIONS
               /\ Len(rx.exclude) = rx.ei
               /\ AllScanned
                    => IF \E k \in 1 .. Len(rx.in.blocks) + 1 :
                             UsedAt(k) >= BP_NUM_EXCLUDE_REGIONS - 2
                       THEN /\ rx.ret = BP_ERROR
                            /\ "NONCOMPLIANT" \in rx.flags
                            /\ rx.branch = "exclude"
                            /\ rx.ei = BP_NUM_EXCLUDE_REGIONS - 2
                            /\ ~rx.payload.set
                            /\ ~rx.rebuilt
                       ELSE rx.branch # "exclude")
    /\ [][(rx'.done /\ rx'.branch = "exclude") => bundle' = bundle]_vars

C21_Witness ==
    /\ rx.done
    /\ AllScanned
    /\ Len(rx.in.blocks) = 7
    /\ UsedAt(7) = BP_NUM_EXCLUDE_REGIONS - 2
    /\ UsedAt(6) < BP_NUM_EXCLUDE_REGIONS - 2
    /\ rx.ret = BP_ERROR
    /\ rx.branch = "exclude"

\* the unrecognized blocks of the received bundle that are to be forwarded
KeptExt ==
    {k \in 1 .. Len(rx.in.blocks) :
        /\ rx.in.blocks[k].type = "EXT"
        /\ "DROP" \notin rx.in.blocks[k].flags}

\* the unrecognized blocks of the rebuilt header
HeaderExt == SelectSeq(rx.header, LAMBDA h : h.type = "EXT")

C24_ForwarderIsCustodian ==
    (/\ rx.done
     /\ rx.ret = BP_PENDING_FORWARD
     /\ rx.in.pri.cst_rqst
     /\ HasBlock("CTEB"))
        => /\ rx.pri_blk.cstnode = bundle.local_node
           /\ rx.pri_blk.cstserv = bundle.local_service
           /\ rx.pri_blk.rptnode = 0
           /\ rx.pri_blk.rptserv = 0
           /\ \A n \in 1 .. Len(rx.header) :
                 rx.header[n].type = "CTEB"
                    => /\ rx.header[n].cstnode = bundle.local_node
                       /\ rx.header[n].cstserv = bundle.local_service

(***************************************************************************)
(* Integrity and parse failures of v6_receive_bundle                       *)
(***************************************************************************)

\* C22 as stated: a bundle with a BIB before its payload block whose stored
\* CRC differs from the CRC of the payload is never answered with
\* PENDING_FORWARD, PENDING_ACCEPTANCE or PENDING_ACKNOWLEDGMENT, and the
\* bundle structure is not rebuilt for it.
C22_IntegrityFailure ==
    (/\ PriAccepted
     /\ \E i \in 1 .. Len(rx.in.blocks) :
           /\ rx.in.blocks[i].type = "BIB"
           /\ rx.in.blocks[i].ok
           /\ ~rx.in.blocks[i].crc_ok)
        => /\ rx.ret \notin {BP_PENDING_FORWARD, BP_PENDING_ACCEPTANCE,
                             BP_PENDING_ACKNOWLEDGMENT}
           /\ ~rx.rebuilt

\* C25 as stated: a call that reports FAILED_TO_PARSE returns an error and
\* has modified neither the input buffer nor the bundle structure.
C25_NoPartialCommit ==
    (rx.done /\ "FAILED_TO_PARSE" \in rx.flags)
        => /\ rx.ret = BP_ERROR
           /\ rx.written = {}
           /\ ~rx.rebuilt

(***************************************************************************)
(* The header buffer                                                       *)
(***************************************************************************)

\* the bytes of the header v6_build was asked for: the primary block, the
\* CTEB, the BIB (CRC-16) and the forwarded blocks
BuildTotal ==
    RecvPriLen + (IF build.cst_rqst THEN CtebLen ELSE 0)
       + (IF build.integrity_check THEN BibLen ELSE 0) + build.hdr_len

OneBitFlip(p, q) ==
    /\ Len(p) = Len(q)
    /\ \E k \in 1 .. Len(p) :
          /\ \A j \in 1 .. Len(p) : j # k => p[j] = q[j]
          /\ \E i \in 0 .. 7 :
                (Bits(p[k], 8) \ Bits(q[k], 8))
                   \cup (Bits(q[k], 8) \ Bits(p[k], 8)) = {i}

\* C27: for both cipher suites, once bib_update has stored the CRC of a
\* payload, bib_verify of the same payload bytes against that integrity
\* block (the structure itself, or the one read back from the block)
\* succeeds, and bib_verify of payload bytes whose CRC differs from the
\* stored one, a payload with one bit flipped among them, fails with
\* FAILED_INTEGRITY_CHECK
C27_VerifyAfterUpdate ==
    bib.pc = "verified" =>
       LET w == 8 * bib.blk.security_result_length.value
       IN  /\ bib.verified = bib.payload =>
                bib.ret = BP_SUCCESS /\ bib.flags = {}
           /\ (\/ bplib_crc_get(bib.verified, w) # bib.blk.crc
               \/ OneBitFlip(bib.verified, bib.payload)) =>
                /\ bib.ret = BP_ERROR
                /\ bib.flags = {"FAILED_INTEGRITY_CHECK"}

\* C27 happens: under CRC-32C a payload was verified after it crossed the
\* block, and so was a payload with one bit flipped
C27_Witness ==
    /\ bib.pc = "verified"
    /\ bib.blk.cipher_suite_id.value = BP_BIB_CRC32_CASTAGNOLI
    /\ bib.size = BibBufLen
    /\ bib.payload = <<72, 105>>
    /\ bib.verified = <<72, 104>>
    /\ bib.ret = BP_ERROR

\* the fields of a BIB structure the round trip is about
BibTuple(blk) ==
    <<blk.bf.value, blk.blklen.value, blk.security_target_count.value,
      blk.security_target_type, blk.cipher_suite_id.value,
      blk.cipher_suite_flags.value, blk.compound_length.value,
      blk.security_result_type, blk.security_result_length.value, blk.crc>>

\* C28 as stated: the block that bib_write wrote with the canonical layout,
\* read with bib_read and the canonical layout, yields the field tuple the
\* caller passed to bib_write
C28_RoundTripOriginal ==
    bib.pc = "read" => BibTuple(bib.blk) = BibTuple(bib.arg)

\* C28 amended: the read succeeds and returns the number of bytes written,
\* and it yields the tuple as bib_write left it in the caller's structure:
\* target count and type, cipher suite id and flags, result type and CRC as
\* passed, the block flags with REPLICATE-ALL set, and the block length,
\* compound length and result length that bib_write computes from the
\* cipher suite
C28_RoundTripAsWritten ==
    /\ bib.pc = "written" =>
          \A size \in BibSizes :
             size >= bib.written =>
                LET r == bib_read(bib.buffer, size, bundle_bib_blk)
                IN  /\ r.ret = BP_SUCCESS
                    /\ r.bytes = bib.written
                    /\ r.flags = {}
                    /\ BibTuple(r.blk) = BibTuple(bib.blk)
    /\ bib.pc = "read" =>
          LET crc16 == bib.arg.cipher_suite_id.value = BP_BIB_CRC16_X25
          IN  /\ bib.bytes = bib.written
              /\ BibTuple(bib.blk)
                   = <<IF bib.arg.bf.value % 2 = 0 THEN bib.arg.bf.value + 1
                       ELSE bib.arg.bf.value,
                       IF crc16 THEN 9 ELSE 11,
                       bib.arg.security_target_count.value,
                       bib.arg.security_target_type,
                       bib.arg.cipher_suite_id.value,
                       bib.arg.cipher_suite_flags.value,
                       IF crc16 THEN 4 ELSE 6,
                       bib.arg.security_result_type,
                       IF crc16 THEN 2 ELSE 4,
                       bib.arg.crc>>

\* C28 happens: a CRC-32C block whose caller passed no lengths was written
\* and read back
C28_Witness ==
    /\ bib.pc = "read"
    /\ bib.arg.cipher_suite_id.value = BP_BIB_CRC32_CASTAGNOLI
    /\ bib.arg.blklen.value = 0
    /\ bib.arg.crc = {3, 31}
    /\ bib.blk.crc = {3, 31}
    /\ bib.bytes = BibBufLen

(***************************************************************************)
(* The system time                                                         *)
(***************************************************************************)

\* C29: bplib_os_systime returns ERROR exactly when the reading is before
\* 2000-01-01 or earlier than the reading of the call before it; so a call
\* whose reading is in 2000 or later and not earlier than the one before
\* succeeds, whatever happened earlier
C29_ErrorExactlyWhenRetrograde ==
    sysclock.pc = "called" =>
       (sysclock.status = BP_ERROR
           <=> \/ sysclock.now < UNIX_SECS_AT_2000
               \/ sysclock.now < sysclock.before)

(***************************************************************************)
(* The allocator                                                           *)
(***************************************************************************)

\* C30: whenever no thread is inside bplib_os_calloc or bplib_os_free, the
\* current-bytes counter is the total size of the blocks still allocated
\* and the high-water counter is at least the current-bytes counter; and
\* the high-water counter never decreases
C30_ThreadSafeCounters ==
    /\ []((\A t \in MemThreads : mem.thr[t].pc = "idle")
             => /\ mem.current = mem.live
                /\ mem.highest >= mem.current)
    /\ [][mem'.highest >= mem.highest]_vars

(***************************************************************************)
(* Further properties of v6_send_bundle                                    *)
(***************************************************************************)

\* C31 as stated: every pass of the fragment loop of v6_send_bundle either
\* ends the call or moves payload_offset on by a fragment size of at least
\* one byte, for every payload size, max_length, header size and
\* fragmentation setting
C31_LoopAdvances ==
    [][\A status \in {BP_SUCCESS, BP_ERROR} :
          V6SendFragment(status)
             => \/ send'.pc = "idle"
                \/ send'.payload_offset >= send.payload_offset + 1]_vars

\* C32 as stated: a fragment that v6_send_bundle handed to storage has
\* bundlesize = headersize + fragment size, and that is at most
\* attributes.max_length, on the first send after v6_build and on later ones
C32_FragmentWithinMaxLength ==
    store # <<>>
        => /\ bundle.bundlesize = bundle.headersize + store[Len(store)].size
           /\ bundle.bundlesize <= bundle.max_length

\* a step of v6_send_bundle: its entry, a pass of the loop, or its end
SendAction ==
    \/ \E size \in 0 .. MaxPay, reliable \in BOOLEAN :
          V6SendBegin(size, reliable)
    \/ \E status \in {BP_SUCCESS, BP_ERROR} : V6SendFragment(status)
    \/ V6SendFinish

\* C33: on a bundle built from a received primary block (prebuilt cleared)
\* no step of v6_send_bundle changes the creation time or the creation
\* sequence, in the structure or in the header, the clock's answer is not
\* looked at (no UNRELIABLE_TIME), and every fragment carries them as
\* received; on a bundle built without one (prebuilt set) the entry of the
\* send writes the clock's time, or the unknown time, and the sequence
\* into the header
C33_ReceivedCreationKept ==
    [][SendAction
         => /\ ~bundle.prebuilt
                 => /\ bundle'.createsec = bundle.createsec
                    /\ bundle'.createseq = bundle.createseq
                    /\ bundle'.hdr_createsec = bundle.hdr_createsec
                    /\ bundle'.hdr_createseq = bundle.hdr_createseq
                    /\ "UNRELIABLE_TIME" \notin send'.flags
                    /\ \A k \in 1 .. Len(store') :
                          /\ store'[k].createsec = bundle.hdr_createsec
                          /\ store'[k].createseq = bundle.hdr_createseq
            /\ (bundle.prebuilt /\ send.pc = "idle" /\ send'.pc = "loop")
                 => /\ bundle'.createsec
                          \in {SysNow, BP_UNKNOWN_CREATION_TIME}
                    /\ bundle'.hdr_createsec = bundle'.createsec
                    /\ bundle'.hdr_createseq = bundle.createseq]_vars

\* C33 happens: a bundle built from a received primary block with creation
\* time TTL and sequence 7 was sent, and the fragment carries both
C33_Witness ==
    /\ ~bundle.prebuilt
    /\ SendSucceeded
    /\ Len(store) = 1
    /\ bundle.createsec = BP_TTL_CREATION_TIME
    /\ bundle.createseq = 7
    /\ store[1].createsec = BP_TTL_CREATION_TIME
    /\ store[1].createseq = 7

\* C34 as stated: when the bundle structure was built from the primary
\* block of a received fragment (is-fragment set, fragment offset F,
\* original payload length L) and its payload is sent in one bundle, the
\* pass of the loop that sends it leaves F and L in the primary block, and
\* the bundle handed to storage carries them
C34_ForwardedFragmentKept ==
    [][\A status \in {BP_SUCCESS, BP_ERROR} :
          (/\ V6SendFragment(status)
           /\ ~bundle.prebuilt
           /\ bundle.hdr_is_frag
           /\ send.size <= send.max_paysize)
             => /\ bundle'.fragoffset = bundle.fragoffset
                /\ bundle'.paylen = bundle.paylen
                /\ \A k \in 1 .. Len(store') :
                      /\ store'[k].fragoffset = bundle.fragoffset
                      /\ store'[k].paylen = bundle.paylen]_vars

\* C35 as stated: a send on a locally built bundle (prebuilt) whose payload
\* fits in one bundle (size <= max_paysize, max_paysize >= 1) leaves the primary block not marked as a fragment and
\* does not rewrite fragoffset or paylen, whatever sends came before it on
\* the same structure
C35_WholeSendNotFragment ==
    [][(/\ SendAction
        /\ bundle.prebuilt
        /\ send'.started
        /\ send'.max_paysize >= 1
        /\ send'.size <= send'.max_paysize)
          => /\ ~bundle'.is_frag
             /\ bundle'.fragoffset = bundle.fragoffset
             /\ bundle'.paylen = bundle.paylen
             /\ \A k \in 1 .. Len(store') : ~store'[k].is_frag]_vars

(***************************************************************************)
(* Further properties of the active-bundle table                           *)
(***************************************************************************)

\* C36 as stated: cbuf_add with overwrite = false on a slot that holds a
\* record, of the same CID or of another CID that maps to the slot, leaves
\* that record in the table
C36_AddKeepsResident ==
    [][(cb_op' = "add")
          => \A b \in Bundles :
                (/\ cbuf.table[cbuf_ati(cbuf, b.cid)].sid # BP_SID_VACANT
                 /\ CbufAdd(b, FALSE))
                => cbuf'.table[cbuf_ati(cbuf, b.cid)]
                      = cbuf.table[cbuf_ati(cbuf, b.cid)]]_vars

(***************************************************************************)
(* Further properties of v6_receive_bundle                                 *)
(***************************************************************************)

\* C37 as stated: v6_receive_bundle never returns plain SUCCESS: it returns
\* one of the four PENDING dispositions, or an error with at least one flag
\* set; a buffer that ends without a payload block is an error
C37_NeverPlainSuccess ==
    rx.done
        => /\ \/ rx.ret \in {BP_PENDING_EXPIRATION, BP_PENDING_FORWARD,
                             BP_PENDING_ACCEPTANCE,
                             BP_PENDING_ACKNOWLEDGMENT}
              \/ rx.ret = BP_ERROR /\ rx.flags # {}
           /\ ~rx.in.pay.present => rx.ret = BP_ERROR

\* C38 as stated: a well-formed bundle whose creation time plus lifetime
\* wraps (SDNV_OVERFLOW, expiration time BP_MAX_ENCODED_VALUE) gets the
\* disposition, and apart from SDNV_OVERFLOW the flags, of the same bundle
\* with a lifetime that does not wrap, unrecognized extension blocks
\* included
C38_SaturationNotFatal ==
    (/\ WellFormed
     /\ rx.clock.reliable
     /\ recv_exprtime(rx.in.pri.createsec, rx.in.pri.lifetime).overflow)
        => LET r == v6_receive_bundle(bundle,
                       [rx.in EXCEPT !.pri.lifetime = 0], rx.clock)
           IN  /\ ~recv_exprtime(rx.in.pri.createsec, 0).overflow
               /\ rx.ret = r.status
               /\ rx.flags \ {"SDNV_OVERFLOW"} = r.flags

(***************************************************************************)
(* os/posix.c: the lock registry                                           *)
(***************************************************************************)

\* the registry has BP_MAX_LOCKS slots, MaxLocks of them in the model
MaxLocks == 2

BP_MAX_LOCKS == MaxLocks

\* the threads that create and destroy locks
LockThreads == {1, 2}

BP_INVALID_HANDLE == 0

BPLIB_HANDLE_OS_BASE == 1

\* handles are serial-encoded: the slot index counted from the base
bp_handle_from_serial(i, base) == base + i

bp_handle_to_serial(h, base) == h - base

\* a mutex that excludes nobody
pthread_mutex_lock_nop(l, t) == TRUE

\* pthread_mutex_lock(&lock_of_locks) returns to thread t when no other
\* thread owns the recursive mutex
pthread_mutex_lock(l, t) == l.owner \in {0, t}

\* the locks[] array is zeroed, lock_of_locks is initialised (bplib_os_init)
\* and no thread is inside a call
LockInit ==
    /\ locks = [pc        |-> "run",
                slots     |-> [i \in 0 .. BP_MAX_LOCKS - 1 |-> FALSE],
                owner     |-> 0,
                destroyed |-> {},
                thr       |-> [t \in LockThreads |->
                                 [pc |-> "idle", i |-> 0,
                                  handle |-> BP_INVALID_HANDLE, h |-> 0,
                                  held |-> {}, free |-> {}, failed |-> {}]]]
    /\ build = NoCall
    /\ bib = NoCall
    /\ sysclock = NoCall
    /\ mem = NoCall
    /\ rx = NoRecv
    /\ expr = NoExpr
    /\ bundle = v6_create(0, FALSE, 0)
    /\ send = NoSend
    /\ store = <<>>
    /\ cbuf = cbuf_create(1)
    /\ cb_op = "create"
    /\ cb_ret = BP_SUCCESS
    /\ cb_out = NoBundle
    /\ reuse = [done |-> "off", k |-> 0]

LockUnchanged ==
    UNCHANGED <<cbuf_vars, send_vars, reuse, recv_vars, build, bib, sysclock,
                mem>>

\* bplib_os_createlock: handle = BP_INVALID_HANDLE, the mutex is taken, i = 0;
\* free remembers the slots that are NULL at this moment
CreateLockEnter(t) ==
    /\ locks.thr[t].pc = "idle"
    /\ pthread_mutex_lock(locks, t)
    /\ locks' = [locks EXCEPT
                   !.owner = t,
                   !.thr[t].pc = "scan",
                   !.thr[t].i = 0,
                   !.thr[t].handle = BP_INVALID_HANDLE,
                   !.thr[t].free = {i \in 0 .. BP_MAX_LOCKS - 1 :
                                       ~locks.slots[i]},
                   !.thr[t].failed = {}]
    /\ LockUnchanged

\* for (i = 0; i < BP_MAX_LOCKS; i++) if (locks[i] == NULL)
CreateLockScan(t) ==
    /\ locks.thr[t].pc = "scan"
    /\ LET i == locks.thr[t].i
       IN  locks' = IF i >= BP_MAX_LOCKS
                    THEN [locks EXCEPT !.thr[t].pc = "unlock"]
                    ELSE IF ~locks.slots[i]
                         THEN [locks EXCEPT !.thr[t].pc = "alloc"]
                         ELSE [locks EXCEPT !.thr[t].i = i + 1]
    /\ LockUnchanged

\* locks[i] = bplib_os_calloc(...); if it is not NULL the mutex and the
\* condition are initialised, the handle is made from i and the loop breaks;
\* if the allocation fails the loop goes on with the next slot
CreateLockAlloc(t, ok) ==
    /\ locks.thr[t].pc = "alloc"
    /\ LET i == locks.thr[t].i
       IN  locks' = IF ok
                    THEN [locks EXCEPT
                            !.slots[i] = TRUE,
                            !.thr[t].handle =
                                bp_handle_from_serial(i, BPLIB_HANDLE_OS_BASE),
                            !.thr[t].pc = "unlock"]
                    ELSE [locks EXCEPT
                            !.thr[t].failed = @ \cup {i},
                            !.thr[t].i = i + 1,
                            !.thr[t].pc = "scan"]
    /\ LockUnchanged

\* pthread_mutex_unlock(&lock_of_locks); return handle: the caller holds the
\* lock it was given
CreateLockReturn(t) ==
    /\ locks.thr[t].pc = "unlock"
    /\ locks' = [locks EXCEPT
                   !.owner = IF @ = t THEN 0 ELSE @,
                   !.thr[t].pc = "idle",
                   !.thr[t].held =
                       IF locks.thr[t].handle = BP_INVALID_HANDLE
                       THEN @
                       ELSE @ \cup {locks.thr[t].handle}]
    /\ LockUnchanged

\* bplib_os_destroylock(h) for a lock the caller holds, which from now on is
\* no longer live: the mutex is taken
DestroyLockEnter(t, h) ==
    /\ locks.thr[t].pc = "idle"
    /\ h \in locks.thr[t].held
    /\ pthread_mutex_lock(locks, t)
    /\ locks' = [locks EXCEPT
                   !.owner = t,
                   !.thr[t].pc = "destroy",
                   !.thr[t].h = h,
                   !.thr[t].held = @ \ {h}]
    /\ LockUnchanged

\* if (locks[handle]) { ... bplib_os_free(locks[handle]);
\* locks[handle] = NULL; }
DestroyLockFree(t) ==
    /\ locks.thr[t].pc = "destroy"
    /\ LET handle == bp_handle_to_serial(locks.thr[t].h, BPLIB_HANDLE_OS_BASE)
       IN  locks' = IF locks.slots[handle]
                    THEN [locks EXCEPT
                            !.slots[handle] = FALSE,
                            !.destroyed = @ \cup {handle},
                            !.thr[t].pc = "dunlock"]
                    ELSE [locks EXCEPT !.thr[t].pc = "dunlock"]
    /\ LockUnchanged

\* pthread_mutex_unlock(&lock_of_locks)
DestroyLockReturn(t) ==
    /\ locks.thr[t].pc = "dunlock"
    /\ locks' = [locks EXCEPT
                   !.owner = IF @ = t THEN 0 ELSE @,
                   !.thr[t].pc = "idle"]
    /\ LockUnchanged

LockStep ==
    \/ \E t \in LockThreads : CreateLockEnter(t)
    \/ \E t \in LockThreads : CreateLockScan(t)
    \/ \E t \in LockThreads, ok \in BOOLEAN : CreateLockAlloc(t, ok)
    \/ \E t \in LockThreads : CreateLockReturn(t)
    \/ \E t \in LockThreads :
          \E h \in locks.thr[t].held : DestroyLockEnter(t, h)
    \/ \E t \in LockThreads : DestroyLockFree(t)
    \/ \E t \in LockThreads : DestroyLockReturn(t)

SpecLock == LockInit /\ [][LockStep]_vars

\* the handles of the locks that are live
LiveLocks == UNION {locks.thr[t].held : t \in LockThreads}

\* bplib_os_createlock returns to thread t
CreateLockReturns(t) ==
    locks.thr[t].pc = "unlock" /\ locks'.thr[t].pc = "idle"

\* what holds of the registry whatever bplib_os_calloc does
LockRegistrySafe ==
    /\ [](/\ \A t, u \in LockThreads :
                t # u => locks.thr[t].held \cap locks.thr[u].held = {}
          /\ Cardinality(LiveLocks) <= BP_MAX_LOCKS
          /\ \A h \in LiveLocks :
                locks.slots[bp_handle_to_serial(h, BPLIB_HANDLE_OS_BASE)])
    /\ [][\A t \in LockThreads :
             /\ (CreateLockReturns(t)
                    /\ locks.thr[t].handle # BP_INVALID_HANDLE)
                   => /\ locks.thr[t].handle \notin LiveLocks
                      /\ bp_handle_to_serial(locks.thr[t].handle,
                                             BPLIB_HANDLE_OS_BASE)
                            \in locks.thr[t].free
             /\ DestroyLockReturn(t)
                   => LET s == bp_handle_to_serial(locks.thr[t].h,
                                                   BPLIB_HANDLE_OS_BASE)
                      IN  ~locks'.slots[s]]_vars

\* C39 as stated: under any interleaving of bplib_os_createlock and
\* bplib_os_destroylock, live locks never share a handle, at most
\* BP_MAX_LOCKS are live, a destroyed lock's slot is free again, and
\* createlock returns BP_INVALID_HANDLE exactly when no slot is free
C39_InvalidIffNoFreeSlot ==
    /\ LockRegistrySafe
    /\ [][\A t \in LockThreads :
             CreateLockReturns(t)
                => (locks.thr[t].handle = BP_INVALID_HANDLE
                       <=> locks.thr[t].free = {})]_vars

\* C39 as the code has it: the same, but createlock returns
\* BP_INVALID_HANDLE exactly when no slot is free or bplib_os_calloc fails
\* for every free slot
C39_InvalidIffNoSlotAllocated ==
    /\ LockRegistrySafe
    /\ [][\A t \in LockThreads :
             CreateLockReturns(t)
                => (locks.thr[t].handle = BP_INVALID_HANDLE
                       <=> locks.thr[t].free = locks.thr[t].failed)]_vars

\* every slot is taken, one of them for the second time, both threads hold
\* locks and a createlock has just found no free slot
C39_Witness ==
    /\ \A i \in 0 .. BP_MAX_LOCKS - 1 : locks.slots[i]
    /\ \A t \in LockThreads : locks.thr[t].held # {}
    /\ \E h \in LiveLocks :
          bp_handle_to_serial(h, BPLIB_HANDLE_OS_BASE) \in locks.destroyed
    /\ \E t \in LockThreads :
          /\ locks.thr[t].pc = "unlock"
          /\ locks.thr[t].free = {}
          /\ locks.thr[t].handle = BP_INVALID_HANDLE

(***************************************************************************)
(* os/posix.c: bplib_os_systime called by several threads                  *)
(***************************************************************************)

\* the threads that ask for the time
SysThreads == {1, 2}

\* the readings of a clock that is in 2000 or later
ReadingsPast2000 == {c \in ClockReadings : c >= UNIX_SECS_AT_2000}

\* bplib_os_init has read the clock into prevnow and no thread is inside
\* bplib_os_systime
SysTimeInit ==
    /\ \E c \in ReadingsPast2000 :
          sysclock = [pc      |-> "threads",
                      clock   |-> c,
                      prevnow |-> c,
                      thr     |-> [t \in SysThreads |->
                                     [pc |-> "idle", now |-> c,
                                      previous |-> c,
                                      status |-> BP_SUCCESS, sysnow |-> 0,
                                      calls |-> 0]]]
    /\ build = NoCall
    /\ bib = NoCall
    /\ mem = NoCall
    /\ locks = NoCall
    /\ rx = NoRecv
    /\ expr = NoExpr
    /\ bundle = v6_create(0, FALSE, 0)
    /\ send = NoSend
    /\ store = <<>>
    /\ cbuf = cbuf_create(1)
    /\ cb_op = "create"
    /\ cb_ret = BP_SUCCESS
    /\ cb_out = NoBundle
    /\ reuse = [done |-> "off", k |-> 0]

\* CLOCK_REALTIME goes forward
ClockTick ==
    /\ \E c \in ReadingsPast2000 :
          /\ c > sysclock.clock
          /\ sysclock' = [sysclock EXCEPT !.clock = c]
    /\ UNCHANGED <<cbuf_vars, send_vars, reuse, recv_vars, build, bib, mem,
                   locks>>

\* clock_gettime(CLOCK_REALTIME, &now)
SysTimeGet(t) ==
    /\ sysclock.thr[t].pc = "idle"
    /\ sysclock.thr[t].calls < MaxCalls
    /\ sysclock' = [sysclock EXCEPT
                      !.thr[t].pc = "got",
                      !.thr[t].now = sysclock.clock]
    /\ UNCHANGED <<cbuf_vars, send_vars, reuse, recv_vars, build, bib, mem,
                   locks>>

\* previous_secs = prevnow.tv_sec - UNIX_SECS_AT_2000: prevnow is read
SysTimeLoad(t) ==
    /\ sysclock.thr[t].pc = "got"
    /\ sysclock' = [sysclock EXCEPT
                      !.thr[t].pc = "loaded",
                      !.thr[t].previous = sysclock.prevnow]
    /\ UNCHANGED <<cbuf_vars, send_vars, reuse, recv_vars, build, bib, mem,
                   locks>>

\* prevnow = now; *sysnow = elapsed_secs; the two differences are compared
\* and the status is returned
SysTimeStore(t) ==
    /\ sysclock.thr[t].pc = "loaded"
    /\ LET r == bplib_os_systime(sysclock.thr[t].previous,
                                 sysclock.thr[t].now)
       IN  sysclock' = [sysclock EXCEPT
                          !.prevnow = r.prevnow,
                          !.thr[t].pc = "idle",
                          !.thr[t].status = r.status,
                          !.thr[t].sysnow = r.sysnow,
                          !.thr[t].calls = @ + 1]
    /\ UNCHANGED <<cbuf_vars, send_vars, reuse, recv_vars, build, bib, mem,
                   locks>>

SysTimeStep ==
    \/ ClockTick
    \/ \E t \in SysThreads : SysTimeGet(t)
    \/ \E t \in SysThreads : SysTimeLoad(t)
    \/ \E t \in SysThreads : SysTimeStore(t)

SpecSysTime == SysTimeInit /\ [][SysTimeStep]_vars

\* C40 as stated: when the clock is in 2000 or later and never goes
\* backwards, no call of bplib_os_systime returns BP_ERROR, whatever the
\* interleaving of the threads that call it
C40_NoErrorOnMonotonicClock ==
    \A t \in SysThreads : sysclock.thr[t].status # BP_ERROR

====
